---- MODULE Spec2Model ----
(***************************************************************************)
(* Connection lifecycle of tcpee's TCPProxy (package tcpee, the variant    *)
(* with traffic statistics): Proxy's pre-flight dial, listener and accept  *)
(* loop, the per-connection serve routine with its two copyConn pumps, and *)
(* Close.  Every goroutine is a process with a program counter; a step of  *)
(* the model is one blocking call or one shared-memory operation.          *)
(***************************************************************************)
EXTENDS Integers, FiniteSets, Sequences, TLC

\* ----------------------------------------------------------------- bounds
\* Connections the listeners hand out over a run.
MaxSessions == 2
\* Proxy(src, dst) calls made on the instance (one per "src -> dst" entry).
NumStarts == 2
\* Close() calls made on the instance.
NumClosers == 2
\* Cap on each traffic counter (the code's counters are uint64).
MaxBytes == 1
\* Errors the network raises over a run.
MaxFaults == 2
\* Size of one run: see Scenarios.
MaxLoad == 16
\* Ticks of the clock in a timed run.
MaxTime == 6
\* The slack, in ticks, granted to "within d + epsilon".
Epsilon == 1
Granule == 15

Sessions == 1..MaxSessions
Starts   == 1..NumStarts
Closers  == 1..NumClosers

\* The two sockets of a session: "s" the accepted (front) conn, "d" the
\* dialed (back) conn.  The two pumps: "in" copies s -> d, "out" copies d -> s.
Socks == {"s", "d"}
Dirs  == {"in", "out"}

VARIABLES
    env,          \* what the surroundings do over the run (a Scenario)
    cfg,          \* the exported knobs: ProxyProto, ClientTimeout, ServerTimeout
    initialised,  \* doOnce has run
    cancelled,    \* baseCtx is done
    serveWg,      \* serveWg's counter
    open,         \* proxy.open
    bytesIn,      \* proxy.bytesIn
    bytesOut,     \* proxy.bytesOut
    statsTasks,   \* ticker goroutines started by startStatsTimer
    crashed,      \* an unrecovered panic has ended the process
    startPc,      \* where each Proxy call stands
    startRet,     \* what each Proxy call returned
    retCancelled, \* whether baseCtx was done when the Proxy call returned
    ln,           \* each Proxy call's listener: "none", "open", "closed"
    pending,      \* the session a Proxy call has accepted and not yet dispatched
    accepted,     \* connections accepted so far
    drv,          \* where each serve routine stands
    panicking,    \* the serve routine is unwinding a panic
    sock,         \* per session and socket: "none", "open", "closed"
    closes,       \* per session and socket: Close() calls made on it
    drvCloses,    \* per session and socket: Close() calls made by serve
    via,          \* per session: the way serve left ("none" while it runs)
    pump,         \* per session and direction: where copyConn stands
    errCh,        \* per session and direction: errIn / errOut
    hdr,          \* per session: PROXY headers written to d
    sent,         \* per session and direction: bytes the source peer has written
    wrote,        \* per session and socket: what the proxy has written to it
    counted,      \* per session and direction: bytes the pump added to its counter
    ioErrs,       \* errors the network has raised in copies
    tempErrs,     \* per Proxy call: temporary errors its Accept calls returned
    tempsBefore,  \* per session: tempErrs of its Proxy call when it was accepted
    adds,         \* per session: serveWg.Add(1) calls
    incs,         \* per session: increments of proxy.open
    decs,         \* per session: decrements of proxy.open
    dones,        \* per session: serveWg.Done() calls
    closePc,      \* where each Close call stands
    addrs,        \* the endpoints of a connection: client, front-end, back-end
    line,         \* the header built for that connection (<<>> before)
    now,          \* the clock, in ticks
    deadline,     \* per session and direction: the deadline its pump armed on s (0: none)
    got,          \* per session and direction: n of the ReadFrom call under way
    lastByte,     \* per session: when its client last wrote a byte (its start before)
    longestIdle,  \* per session: the longest its client has gone without writing
    timedOut,     \* per session and direction: the pump left its loop on a timeout
    probe,        \* per Proxy call: its pre-flight conn: "none", "open", "closed"
    inits,        \* runs of the function init() hands to doOnce
    failsBefore,  \* per session: serve routines whose dial had failed when it was accepted
    Transparent,  \* the exported knob of the variant with the socket hook
    kernel,       \* what the kernel answers on the dialed and on the listening socket
    control,      \* dialer.Control and lnCfg.Control: "nil" or the hook
    hookPc,       \* where the Proxy call of that variant stands
    hookRet,      \* what it returned
    mainPc,       \* where main() stands ("off": the package used without it)
    exitCode,     \* the exit code of the process (-1 while it runs)
    iters,        \* per session and direction: loop iterations the pump has begun
    calls,        \* per session and direction: calls its setter has made of its f
    armed,        \* per session and direction: the deadlines those calls have set
    acceptErr,    \* per Proxy call: the error that ended its Accept calls ("none" before)
    statsDone,    \* ticker goroutines that have returned
    ppool,        \* the buffers that sit in proxy.ppool
    buf,          \* per session: the slice hdr of serve (<<>> before the Get)
    bufPc         \* per session: where the header block of serve stands

instVars  == <<env, cfg, initialised, cancelled, serveWg, open, bytesIn, bytesOut,
               statsTasks, crashed>>
startVars == <<startPc, startRet, retCancelled, ln, pending, accepted>>
sessVars  == <<drv, panicking, sock, closes, drvCloses, via, pump, errCh, hdr>>
flowVars  == <<sent, wrote, counted>>
faultVars == <<ioErrs, tempErrs, tempsBefore>>
histVars  == <<adds, incs, decs, dones>>
hdrVars   == <<addrs, line>>
clockVars == <<now, deadline, got, lastByte, longestIdle, timedOut>>
onceVars  == <<probe, inits>>
hookVars  == <<Transparent, kernel, control, hookPc, hookRet>>
mainVars  == <<mainPc, exitCode>>
armVars   == <<iters, calls, armed>>
poolVars  == <<ppool, buf, bufPc>>
vars      == <<instVars, startVars, sessVars, flowVars, faultVars, histVars, closePc,
               hdrVars, clockVars, onceVars, failsBefore, hookVars, mainVars, armVars, acceptErr, statsDone,
               poolVars>>

\* The knob settings tried: a duration is 0 (unset) or 1 (some d > 0).  The
\* four settings kept show every value of every knob and every pair of
\* values of two knobs.
Durations == {0, 1}
Configs ==
    {c \in [ProxyProto : BOOLEAN, ClientTimeout : Durations, ServerTimeout : Durations] :
        c.ProxyProto <=> (c.ClientTimeout # c.ServerTimeout)}

\* What happens around the instance over a run: the Proxy calls and the
\* Close() calls the owner makes, the connections clients make, the payload
\* bytes the peers send in each direction, and the errors the network
\* raises (temporary errors of Accept, errors of a copy between two open
\* conns).  The size of a run counts 8 for a Proxy call, which brings a
\* listener, an accept loop and a ticker, 4 for a connection, which brings
\* three goroutines, 2 for a Close() call or a payload byte and 1 for an
\* error.  The runs explored are those of size MaxLoad; a run that uses less
\* is a prefix of one of them.
Scenarios ==
    {sc \in [starts : 1..NumStarts, conns : 0..MaxSessions, closers : 0..NumClosers,
             bytes : 0..MaxBytes, faults : 0..MaxFaults] :
        8 * sc.starts + 4 * sc.conns + 2 * (sc.closers + sc.bytes) + sc.faults = MaxLoad}

\* ------------------------------------------------------------- addresses
\* net.IPv4len and net.IPv6len.
IPv4len == 4
IPv6len == 16

\* A 16-byte IP ending in 127.0.0.1: byte z of the first ten is 1 (none when
\* z = 0), bytes 10 and 11 are a and b.
Sixteen(z, a, b) ==
    [j \in 1..IPv6len |->
        IF j <= 10 THEN (IF j = z THEN 1 ELSE 0)
        ELSE IF j = 11 THEN a
        ELSE IF j = 12 THEN b
        ELSE <<127, 0, 0, 1>>[j - 12]]

\* The IPs tried: 4-byte ones, 16-byte ones around the IPv4-mapped form, and
\* slices of other lengths.
IPs ==
    {<<127, 0, 0, 1>>, <<10, 0, 0, 1>>, <<>>, <<1, 2, 3, 4, 5>>}
    \cup {Sixteen(z, a, b) : z \in {0, 1, 10}, a \in {0, 1, 255}, b \in {0, 1, 255}}

\* The ports tried.
Ports == {7, 10, 25}

\* The endpoints of one proxied connection.
Addrs ==
    [client : [IP : IPs, Port : Ports],
     front  : [IP : {<<127, 0, 0, 1>>}, Port : Ports],
     back   : [IP : {<<127, 0, 0, 1>>, Sixteen(0, 0, 0)}, Port : Ports]]

\* Client 127.0.0.1:7 connected to front-end 127.0.0.1:10, proxied to
\* 127.0.0.1:25.
Loopback ==
    [client |-> [IP |-> <<127, 0, 0, 1>>, Port |-> 7],
     front  |-> [IP |-> <<127, 0, 0, 1>>, Port |-> 10],
     back   |-> [IP |-> <<127, 0, 0, 1>>, Port |-> 25]]

\* proxy.ppool holds nothing and no serve routine has asked it for a
\* buffer.
Unpooled ==
    /\ ppool = <<>>
    /\ buf = [i \in Sessions |-> <<>>]
    /\ bufPc = [i \in Sessions |-> "none"]

\* The zero value of TCPProxy, with no Proxy or Close call made yet.
Idle ==
    /\ initialised = FALSE
    /\ cancelled = FALSE
    /\ serveWg = 0
    /\ open = 0
    /\ bytesIn = 0
    /\ bytesOut = 0
    /\ statsTasks = 0
    /\ crashed = FALSE
    /\ startPc = [s \in Starts |-> "idle"]
    /\ startRet = [s \in Starts |-> "none"]
    /\ retCancelled = [s \in Starts |-> FALSE]
    /\ ln = [s \in Starts |-> "none"]
    /\ pending = [s \in Starts |-> 0]
    /\ accepted = 0
    /\ drv = [i \in Sessions |-> "none"]
    /\ panicking = [i \in Sessions |-> FALSE]
    /\ sock = [i \in Sessions |-> [k \in Socks |-> "none"]]
    /\ closes = [i \in Sessions |-> [k \in Socks |-> 0]]
    /\ drvCloses = [i \in Sessions |-> [k \in Socks |-> 0]]
    /\ via = [i \in Sessions |-> "none"]
    /\ pump = [i \in Sessions |-> [p \in Dirs |-> "none"]]
    /\ errCh = [i \in Sessions |-> [p \in Dirs |-> "open"]]
    /\ hdr = [i \in Sessions |-> 0]
    /\ sent = [i \in Sessions |-> [p \in Dirs |-> 0]]
    /\ wrote = [i \in Sessions |-> [k \in Socks |-> <<>>]]
    /\ counted = [i \in Sessions |-> [p \in Dirs |-> 0]]
    /\ ioErrs = 0
    /\ tempErrs = [s \in Starts |-> 0]
    /\ tempsBefore = [i \in Sessions |-> 0]
    /\ adds = [i \in Sessions |-> 0]
    /\ incs = [i \in Sessions |-> 0]
    /\ decs = [i \in Sessions |-> 0]
    /\ dones = [i \in Sessions |-> 0]
    /\ closePc = [c \in Closers |-> "idle"]
    /\ probe = [s \in Starts |-> "none"]
    /\ inits = 0
    /\ failsBefore = [i \in Sessions |-> 0]
    /\ acceptErr = [s \in Starts |-> "none"]
    /\ statsDone = 0

\* The clock at zero, with no deadline armed.
Epoch ==
    /\ now = 0
    /\ deadline = [i \in Sessions |-> [p \in Dirs |-> 0]]
    /\ got = [i \in Sessions |-> [p \in Dirs |-> 0]]
    /\ lastByte = [i \in Sessions |-> 0]
    /\ longestIdle = [i \in Sessions |-> 0]
    /\ timedOut = [i \in Sessions |-> [p \in Dirs |-> FALSE]]
    /\ iters = [i \in Sessions |-> [p \in Dirs |-> 0]]
    /\ calls = [i \in Sessions |-> [p \in Dirs |-> 0]]
    /\ armed = [i \in Sessions |-> [p \in Dirs |-> {}]]

\* The socket hook left out: the knob unset and nothing installed.
Unhooked ==
    /\ Transparent = FALSE
    /\ kernel = [k \in {"dialer", "lnCfg"} |->
                    [Control |-> "nil", Setsockopt |-> "nil", Getsockopt |-> "nil", val |-> 1]]
    /\ control = [k \in {"dialer", "lnCfg"} |-> "nil"]
    /\ hookPc = "idle"
    /\ hookRet = "none"

\* The package on its own: no main() around the instance, and a process
\* that has not exited.
Library ==
    /\ mainPc = "off"
    /\ exitCode = -1

\* Time plays no part in the runs of Spec: a deadline, once armed, may
\* expire at any step.
Init ==
    /\ env \in Scenarios
    /\ cfg \in Configs
    /\ Idle
    /\ addrs = Loopback
    /\ line = <<>>
    /\ Unpooled
    /\ Epoch
    /\ Unhooked
    /\ Library

\* A process that an unrecovered panic has ended, or that has exited, takes
\* no further step.
Running == ~crashed /\ exitCode = -1

\* ------------------------------------------------------------ environment
\* The sum of f over S.
RECURSIVE SumOver(_, _)
SumOver(f, S) ==
    IF S = {} THEN 0
    ELSE LET x == CHOOSE y \in S : TRUE IN f[x] + SumOver(f, S \ {x})

\* DialContext(baseCtx, "tcp", dst): with baseCtx done it fails with the
\* context's error; otherwise the network decides.
DialOutcomes == IF cancelled THEN {"canceled"} ELSE {"ok", "error"}

\* lnCfg.Listen(baseCtx, "tcp", src): baseCtx is consulted for name
\* resolution only, so the bind succeeds or fails whatever the token says.
ListenOutcomes == {"ok", "error"}

\* The network has an error left to raise.
FaultsLeft == ioErrs + SumOver(tempErrs, Starts) < env.faults

\* ln.Accept(): a connection, a temporary net.Error, io.EOF or another error.
\* Nothing in the package closes the listener before Proxy returns, so the
\* token has no influence on the call.
AcceptOutcomes ==
    (IF accepted < env.conns THEN {"conn"} ELSE {})
    \cup (IF FaultsLeft THEN {"temporary"} ELSE {})
    \cup {"eof", "error"}

\* The bytes the peers have written in direction p, all sessions together.
SentTotal(p) == SumOver([i \in Sessions |-> sent[i][p]], Sessions)

\* --------------------------------------------------------------- Proxy()
\* A return of Proxy without the deferred ln.Close().
ReturnNoClose(s, r) ==
    /\ startPc' = [startPc EXCEPT ![s] = "returned"]
    /\ startRet' = [startRet EXCEPT ![s] = r]
    /\ retCancelled' = [retCancelled EXCEPT ![s] = cancelled]
    /\ UNCHANGED ln

\* A return statement of Proxy: the deferred ln.Close() runs when the
\* listener has been bound.
Return(s, r) ==
    /\ startPc' = [startPc EXCEPT ![s] = "returned"]
    /\ startRet' = [startRet EXCEPT ![s] = r]
    /\ retCancelled' = [retCancelled EXCEPT ![s] = cancelled]
    /\ ln' = [ln EXCEPT ![s] = IF @ = "open" THEN "closed" ELSE @]

\* proxy.init() under doOnce, then proxy.startStatsTimer(), which starts a
\* ticker goroutine on every call.
StartInit(s) ==
    /\ Running
    /\ startPc[s] = "idle"
    /\ s <= env.starts
    /\ initialised' = TRUE
    /\ inits' = IF initialised THEN inits ELSE inits + 1
    /\ UNCHANGED probe
    /\ statsTasks' = statsTasks + 1
    /\ startPc' = [startPc EXCEPT ![s] = "dial"]
    /\ UNCHANGED <<env, cfg, cancelled, serveWg, open, bytesIn, bytesOut, crashed>>
    /\ UNCHANGED <<startRet, retCancelled, ln, pending, accepted>>
    /\ UNCHANGED <<sessVars, histVars, closePc>>
    /\ UNCHANGED flowVars
    /\ UNCHANGED <<hdrVars, clockVars>>
    /\ UNCHANGED faultVars
    /\ UNCHANGED failsBefore
    /\ UNCHANGED hookVars
    /\ UNCHANGED mainVars
    /\ UNCHANGED armVars
    /\ UNCHANGED acceptErr
    /\ UNCHANGED statsDone
    /\ UNCHANGED poolVars

\* The pre-flight dial without the Close() of the conn it returned.
StartDialKeepProbe(s) ==
    /\ Running
    /\ startPc[s] = "dial"
    /\ \E o \in DialOutcomes :
        \/ /\ o = "canceled"
           /\ Return(s, "errCanceled")
           /\ UNCHANGED probe
        \/ /\ o = "error"
           /\ Return(s, "dialErr")
           /\ UNCHANGED probe
        \/ /\ o = "ok"
           /\ probe' = [probe EXCEPT ![s] = "open"]
           /\ startPc' = [startPc EXCEPT ![s] = "listen"]
           /\ UNCHANGED <<startRet, retCancelled, ln>>
    /\ UNCHANGED inits
    /\ UNCHANGED <<pending, accepted>>
    /\ UNCHANGED <<instVars, sessVars, histVars, closePc>>
    /\ UNCHANGED flowVars
    /\ UNCHANGED <<hdrVars, clockVars>>
    /\ UNCHANGED faultVars
    /\ UNCHANGED failsBefore
    /\ UNCHANGED hookVars
    /\ UNCHANGED mainVars
    /\ UNCHANGED armVars
    /\ UNCHANGED acceptErr
    /\ UNCHANGED statsDone
    /\ UNCHANGED poolVars

\* The pre-flight dial, conn, err := proxy.dial(dst), and the conn.Close()
\* that follows a successful one; either error is returned as it is.
StartDial(s) ==
    /\ Running
    /\ startPc[s] = "dial"
    /\ \E o \in DialOutcomes :
        \/ /\ o = "canceled"
           /\ Return(s, "errCanceled")
           /\ UNCHANGED probe
        \/ /\ o = "error"
           /\ Return(s, "dialErr")
           /\ UNCHANGED probe
        \/ /\ o = "ok"
           /\ probe' = [probe EXCEPT ![s] = "closed"]
           /\ \/ Return(s, "probeCloseErr")
              \/ /\ startPc' = [startPc EXCEPT ![s] = "listen"]
                 /\ UNCHANGED <<startRet, retCancelled, ln>>
    /\ UNCHANGED inits
    /\ UNCHANGED <<pending, accepted>>
    /\ UNCHANGED <<instVars, sessVars, histVars, closePc>>
    /\ UNCHANGED flowVars
    /\ UNCHANGED <<hdrVars, clockVars>>
    /\ UNCHANGED faultVars
    /\ UNCHANGED failsBefore
    /\ UNCHANGED hookVars
    /\ UNCHANGED mainVars
    /\ UNCHANGED armVars
    /\ UNCHANGED acceptErr
    /\ UNCHANGED statsDone
    /\ UNCHANGED poolVars

\* proxy.listen(src) and the defer of ln.Close().
StartListen(s) ==
    /\ Running
    /\ startPc[s] = "listen"
    /\ \E o \in ListenOutcomes :
        \/ /\ o = "error"
           /\ Return(s, "listenErr")
        \/ /\ o = "ok"
           /\ startPc' = [startPc EXCEPT ![s] = "check"]
           /\ ln' = [ln EXCEPT ![s] = "open"]
           /\ UNCHANGED <<startRet, retCancelled>>
    /\ UNCHANGED <<pending, accepted>>
    /\ UNCHANGED <<instVars, sessVars, histVars, closePc>>
    /\ UNCHANGED flowVars
    /\ UNCHANGED <<hdrVars, clockVars>>
    /\ UNCHANGED faultVars
    /\ UNCHANGED onceVars
    /\ UNCHANGED failsBefore
    /\ UNCHANGED hookVars
    /\ UNCHANGED mainVars
    /\ UNCHANGED armVars
    /\ UNCHANGED acceptErr
    /\ UNCHANGED statsDone
    /\ UNCHANGED poolVars

\* Top of the outer loop: the non-blocking select on baseCtx.Done().
StartCheck(s) ==
    /\ Running
    /\ startPc[s] = "check"
    /\ \/ /\ cancelled
          /\ Return(s, "ErrProxyClosed")
       \/ /\ ~cancelled
          /\ startPc' = [startPc EXCEPT ![s] = "accept"]
          /\ UNCHANGED <<startRet, retCancelled, ln>>
    /\ UNCHANGED <<pending, accepted>>
    /\ UNCHANGED <<instVars, sessVars, histVars, closePc>>
    /\ UNCHANGED flowVars
    /\ UNCHANGED <<hdrVars, clockVars>>
    /\ UNCHANGED faultVars
    /\ UNCHANGED onceVars
    /\ UNCHANGED failsBefore
    /\ UNCHANGED hookVars
    /\ UNCHANGED mainVars
    /\ UNCHANGED armVars
    /\ UNCHANGED acceptErr
    /\ UNCHANGED statsDone
    /\ UNCHANGED poolVars

\* A loop that returns io.EOF like any other error.
SurfacedRaw(o) == IF o = "eof" THEN "EOF" ELSE "acceptErr"

\* What Proxy returns for a non-temporary error o of Accept: nil if
\* errors.Is(err, io.EOF), otherwise err itself.
Surfaced(o) == IF o = "eof" THEN "nil" ELSE "acceptErr"

\* The inner loop's ln.Accept() and the classification of its error.
StartAccept(s) ==
    /\ Running
    /\ startPc[s] = "accept"
    /\ \E o \in AcceptOutcomes :
        \/ /\ o = "conn"
           /\ accepted' = accepted + 1
           /\ pending' = [pending EXCEPT ![s] = accepted + 1]
           /\ drv' = [drv EXCEPT ![accepted + 1] = "accepted"]
           /\ sock' = [sock EXCEPT ![accepted + 1]["s"] = "open"]
           /\ tempsBefore' = [tempsBefore EXCEPT ![accepted + 1] = tempErrs[s]]
           /\ failsBefore' = [failsBefore EXCEPT ![accepted + 1] =
                                 Cardinality({i \in Sessions : via[i] = "dial"})]
           /\ startPc' = [startPc EXCEPT ![s] = "add"]
           /\ UNCHANGED <<startRet, retCancelled, ln, tempErrs, acceptErr>>
        \/ /\ o = "temporary"
           /\ startPc' = [startPc EXCEPT ![s] = "backoff"]
           /\ tempErrs' = [tempErrs EXCEPT ![s] = @ + 1]
           /\ UNCHANGED <<startRet, retCancelled, ln, pending, accepted, drv, sock, tempsBefore>>
           /\ UNCHANGED <<failsBefore, acceptErr>>
        \/ /\ o \in {"eof", "error"}
           /\ acceptErr' = [acceptErr EXCEPT ![s] = o]
           /\ Return(s, Surfaced(o))
           /\ UNCHANGED <<pending, accepted, drv, sock, tempErrs, tempsBefore>>
           /\ UNCHANGED failsBefore
    /\ UNCHANGED ioErrs
    /\ UNCHANGED <<panicking, closes, drvCloses, via, pump, errCh, hdr>>
    /\ UNCHANGED <<instVars, histVars, closePc>>
    /\ UNCHANGED flowVars
    /\ UNCHANGED <<hdrVars, clockVars>>
    /\ UNCHANGED onceVars
    /\ UNCHANGED hookVars
    /\ UNCHANGED mainVars
    /\ UNCHANGED armVars
    /\ UNCHANGED statsDone
    /\ UNCHANGED poolVars

\* A temporary error that ends the loop like any other error.
StartBackoffReturn(s) ==
    /\ Running
    /\ startPc[s] = "backoff"
    /\ Return(s, "acceptErr")
    /\ UNCHANGED <<pending, accepted>>
    /\ UNCHANGED <<instVars, sessVars, histVars, closePc>>
    /\ UNCHANGED flowVars
    /\ UNCHANGED <<hdrVars, clockVars>>
    /\ UNCHANGED faultVars
    /\ UNCHANGED onceVars
    /\ UNCHANGED failsBefore
    /\ UNCHANGED hookVars
    /\ UNCHANGED mainVars
    /\ UNCHANGED armVars
    /\ UNCHANGED acceptErr
    /\ UNCHANGED statsDone
    /\ UNCHANGED poolVars

\* time.Sleep(time.Second); continue inner.
StartBackoff(s) ==
    /\ Running
    /\ startPc[s] = "backoff"
    /\ startPc' = [startPc EXCEPT ![s] = "accept"]
    /\ UNCHANGED <<startRet, retCancelled, ln, pending, accepted>>
    /\ UNCHANGED <<instVars, sessVars, histVars, closePc>>
    /\ UNCHANGED flowVars
    /\ UNCHANGED <<hdrVars, clockVars>>
    /\ UNCHANGED faultVars
    /\ UNCHANGED onceVars
    /\ UNCHANGED failsBefore
    /\ UNCHANGED hookVars
    /\ UNCHANGED mainVars
    /\ UNCHANGED armVars
    /\ UNCHANGED acceptErr
    /\ UNCHANGED statsDone
    /\ UNCHANGED poolVars

\* proxy.serveWg.Add(1).
StartAdd(s) ==
    /\ Running
    /\ startPc[s] = "add"
    /\ serveWg' = serveWg + 1
    /\ adds' = [adds EXCEPT ![pending[s]] = @ + 1]
    /\ drv' = [drv EXCEPT ![pending[s]] = "added"]
    /\ startPc' = [startPc EXCEPT ![s] = "spawn"]
    /\ UNCHANGED <<env, cfg, initialised, cancelled, open, bytesIn, bytesOut, statsTasks, crashed>>
    /\ UNCHANGED <<startRet, retCancelled, ln, pending, accepted>>
    /\ UNCHANGED <<panicking, sock, closes, drvCloses, via, pump, errCh, hdr>>
    /\ UNCHANGED <<incs, decs, dones, closePc>>
    /\ UNCHANGED flowVars
    /\ UNCHANGED <<hdrVars, clockVars>>
    /\ UNCHANGED faultVars
    /\ UNCHANGED onceVars
    /\ UNCHANGED failsBefore
    /\ UNCHANGED hookVars
    /\ UNCHANGED mainVars
    /\ UNCHANGED armVars
    /\ UNCHANGED acceptErr
    /\ UNCHANGED statsDone
    /\ UNCHANGED poolVars

\* StartSpawn with the counter bumped after the go statement has been
\* forgotten: the serve routine starts uncounted.
StartSpawnNoInc(s) ==
    /\ Running
    /\ startPc[s] = "spawn"
    /\ drv' = [drv EXCEPT ![pending[s]] = "dial"]
    /\ pending' = [pending EXCEPT ![s] = 0]
    /\ startPc' = [startPc EXCEPT ![s] = "check"]
    /\ UNCHANGED <<instVars, histVars, closePc>>
    /\ UNCHANGED <<startRet, retCancelled, ln, accepted>>
    /\ UNCHANGED <<panicking, sock, closes, drvCloses, via, pump, errCh, hdr>>
    /\ UNCHANGED flowVars
    /\ UNCHANGED <<hdrVars, clockVars>>
    /\ UNCHANGED faultVars
    /\ UNCHANGED onceVars
    /\ UNCHANGED failsBefore
    /\ UNCHANGED hookVars
    /\ UNCHANGED mainVars
    /\ UNCHANGED armVars
    /\ UNCHANGED acceptErr
    /\ UNCHANGED statsDone
    /\ UNCHANGED poolVars

\* atomic.AddInt64(&proxy.open, 1); go proxy.serve(conn, dst).
StartSpawn(s) ==
    /\ Running
    /\ startPc[s] = "spawn"
    /\ open' = open + 1
    /\ incs' = [incs EXCEPT ![pending[s]] = @ + 1]
    /\ drv' = [drv EXCEPT ![pending[s]] = "dial"]
    /\ pending' = [pending EXCEPT ![s] = 0]
    /\ startPc' = [startPc EXCEPT ![s] = "check"]
    /\ UNCHANGED <<env, cfg, initialised, cancelled, serveWg, bytesIn, bytesOut, statsTasks, crashed>>
    /\ UNCHANGED <<startRet, retCancelled, ln, accepted>>
    /\ UNCHANGED <<panicking, sock, closes, drvCloses, via, pump, errCh, hdr>>
    /\ UNCHANGED <<adds, decs, dones, closePc>>
    /\ UNCHANGED flowVars
    /\ UNCHANGED <<hdrVars, clockVars>>
    /\ UNCHANGED faultVars
    /\ UNCHANGED onceVars
    /\ UNCHANGED failsBefore
    /\ UNCHANGED hookVars
    /\ UNCHANGED mainVars
    /\ UNCHANGED armVars
    /\ UNCHANGED acceptErr
    /\ UNCHANGED statsDone
    /\ UNCHANGED poolVars

\* --------------------------------------------------------------- serve()
\* conn.Close() on socket k of session i.
CloseSock(i, k) ==
    /\ sock' = [sock EXCEPT ![i][k] = "closed"]
    /\ closes' = [closes EXCEPT ![i][k] = @ + 1]

\* Untrack without the decrement: a return that bypasses the deferred
\* function's first statement.
UntrackNoDec(i, way) ==
    /\ via' = [via EXCEPT ![i] = way]
    /\ UNCHANGED <<open, decs>>
    /\ drv' = [drv EXCEPT ![i] = "release"]

\* A return (or panic) of serve enters the deferred function, whose first
\* statement is atomic.AddInt64(&proxy.open, -1).
Untrack(i, way) ==
    /\ via' = [via EXCEPT ![i] = way]
    /\ open' = open - 1
    /\ decs' = [decs EXCEPT ![i] = @ + 1]
    /\ drv' = [drv EXCEPT ![i] = "release"]

\* What stands for the PROXY header line in the record of a socket's
\* writes; the payload bytes of a stream are numbered from 1.
PROXYLine == 0

\* A second Write of the header line.
WriteHeaderTwice(i) ==
    /\ hdr' = [hdr EXCEPT ![i] = @ + 2]
    /\ wrote' = [wrote EXCEPT ![i]["d"] = @ \o <<PROXYLine, PROXYLine>>]

\* dTCPConn.Write(hdr): the header line goes to the back-end socket.
WriteHeader(i) ==
    /\ hdr' = [hdr EXCEPT ![i] = @ + 1]
    /\ wrote' = [wrote EXCEPT ![i]["d"] = Append(@, PROXYLine)]

\* Is p all zeros?
RECURSIVE isZerosFrom(_, _)
isZerosFrom(ip, j) ==
    IF j > Len(ip) THEN TRUE
    ELSE IF ip[j] # 0 THEN FALSE
    ELSE isZerosFrom(ip, j + 1)
isZeros(ip) == isZerosFrom(ip, 1)

\* isIPv4 without the test of the two 0xff bytes.
isIPv4Loose(ip) ==
    \/ Len(ip) = IPv4len
    \/ Len(ip) = IPv6len /\ isZeros(SubSeq(ip, 1, 10))

\* isIPv4: ip[0:10] all zeros, ip[10] and ip[11] 0xff (1-based here).
isIPv4(ip) ==
    \/ Len(ip) = IPv4len
    \/ Len(ip) = IPv6len /\ isZeros(SubSeq(ip, 1, 10)) /\ ip[11] = 255 /\ ip[12] = 255

\* net.IP.String(): the dotted quad of the last four bytes for an IP that
\* To4() takes as IPv4, the text of the whole slice otherwise.  A text is
\* kept as the bytes it spells.
IPString(ip) ==
    IF Len(ip) = IPv4len THEN ip
    ELSE IF Len(ip) = IPv6len /\ isZeros(SubSeq(ip, 1, 10)) /\ ip[11] = 255 /\ ip[12] = 255
         THEN SubSeq(ip, 13, 16)
    ELSE ip

\* strconv.Itoa / strconv.AppendInt(_, n, 10): the decimal digits of n.
RECURSIVE Itoa(_)
Itoa(n) == IF n < 10 THEN <<n>> ELSE Append(Itoa(n \div 10), n % 10)

\* The header serve builds from sTCPConn.RemoteAddr() and
\* dTCPConn.RemoteAddr(), one element per append.
Header(sTCPAddr, dTCPAddr) ==
    LET srcIP == IPString(sTCPAddr.IP)
        dstIP == IPString(dTCPAddr.IP)
        dstPort == Itoa(dTCPAddr.Port)
    IN  <<"PROXY ",
          IF isIPv4(sTCPAddr.IP) THEN "TCP4 " ELSE "TCP6 ",
          srcIP, " ", dstIP, " ",
          Itoa(sTCPAddr.Port), " ", dstPort, "\r\n">>

\* serve's construction of the header for one connection: sConn is the
\* accepted conn (its remote end the client), dConn the dialed one (its
\* remote end the back-end).
ServeHeader ==
    /\ cfg.ProxyProto
    /\ line = <<>>
    /\ line' = Header(addrs.client, addrs.back)
    /\ UNCHANGED <<instVars, startVars, sessVars, flowVars, faultVars, histVars, closePc>>
    /\ UNCHANGED <<addrs, clockVars>>
    /\ UNCHANGED onceVars
    /\ UNCHANGED failsBefore
    /\ UNCHANGED hookVars
    /\ UNCHANGED mainVars
    /\ UNCHANGED armVars
    /\ UNCHANGED acceptErr
    /\ UNCHANGED statsDone
    /\ UNCHANGED poolVars

\* --------------------------------------------------- serve(), proxy.ppool
\* What proxy.ppool.New returns: make([]byte, 0, 107).
New == <<>>

\* The slice hdr[:0].
Reset(b) == SubSeq(b, 1, 0)

\* The sequence q without its k-th element.
Without(q, k) == [j \in 1..(Len(q) - 1) |-> IF j < k THEN q[j] ELSE q[j + 1]]

\* What the header block of serve leaves alone.
PoolFrame ==
    /\ UNCHANGED <<instVars, startVars, sessVars, flowVars, faultVars, histVars, closePc>>
    /\ UNCHANGED <<hdrVars, clockVars, onceVars, failsBefore, hookVars, mainVars, armVars>>
    /\ UNCHANGED <<acceptErr, statsDone>>

\* hdr := proxy.ppool.Get().([]byte): Get takes any buffer out of the pool,
\* or treats the pool as empty and returns New().
PoolGet(i) ==
    /\ Running
    /\ cfg.ProxyProto
    /\ bufPc[i] = "none"
    /\ \/ \E k \in 1..Len(ppool) :
            /\ buf' = [buf EXCEPT ![i] = ppool[k]]
            /\ ppool' = Without(ppool, k)
       \/ /\ buf' = [buf EXCEPT ![i] = New]
          /\ UNCHANGED ppool
    /\ bufPc' = [bufPc EXCEPT ![i] = "got"]
    /\ PoolFrame

\* The appends that build the header in hdr, up to dTCPConn.Write(hdr).
PoolAppend(i) ==
    /\ Running
    /\ bufPc[i] = "got"
    /\ buf' = [buf EXCEPT ![i] = @ \o Header(addrs.client, addrs.back)]
    /\ bufPc' = [bufPc EXCEPT ![i] = "built"]
    /\ UNCHANGED ppool
    /\ PoolFrame

\* A deferred function that puts hdr back as it is.
PoolPutDirty(i) ==
    /\ Running
    /\ bufPc[i] = "built"
    /\ ppool' = Append(ppool, buf[i])
    /\ bufPc' = [bufPc EXCEPT ![i] = "put"]
    /\ UNCHANGED buf
    /\ PoolFrame

\* The deferred function of the header block, run when serve returns:
\* hdr = hdr[:0]; proxy.ppool.Put(hdr).
PoolPut(i) ==
    /\ Running
    /\ bufPc[i] = "built"
    /\ buf' = [buf EXCEPT ![i] = Reset(@)]
    /\ ppool' = Append(ppool, Reset(buf[i]))
    /\ bufPc' = [bufPc EXCEPT ![i] = "put"]
    /\ PoolFrame

\* A failed dial that takes every session's conns down with it.
DialFailedCloseAll(i) ==
    /\ Untrack(i, "dial")
    /\ sock' = [j \in Sessions |-> [k \in Socks |->
                  IF sock[j][k] = "open" THEN "closed" ELSE sock[j][k]]]
    /\ UNCHANGED <<panicking, pump, hdr, wrote>>

\* if err != nil { log "dial error"; return }: only the deferred function
\* runs.
DialFailed(i) ==
    /\ Untrack(i, "dial")
    /\ UNCHANGED <<sock, panicking, pump, hdr, wrote>>

\* From proxy.dial(dst) to the select.  A dial error returns.  Otherwise
\* the type assertions follow (a failed one panics), then the PROXY header
\* when ProxyProto is set (a failed write returns), then the two go
\* statements that start the copyConn goroutines.
ServeDial(i) ==
    /\ Running
    /\ drv[i] = "dial"
    /\ \E o \in DialOutcomes :
        \/ /\ o \in {"canceled", "error"}
           /\ DialFailed(i)
        \/ /\ o = "ok"
           /\ sock' = [sock EXCEPT ![i]["d"] = "open"]
           /\ \/ /\ panicking' = [panicking EXCEPT ![i] = TRUE]
                 /\ Untrack(i, "panic")
                 /\ UNCHANGED <<pump, hdr, wrote>>
              \/ /\ cfg.ProxyProto
                 /\ Untrack(i, "header")
                 /\ UNCHANGED <<panicking, pump, hdr, wrote>>
              \/ /\ IF cfg.ProxyProto THEN WriteHeader(i) ELSE UNCHANGED <<hdr, wrote>>
                 /\ pump' = [pump EXCEPT ![i] = [p \in Dirs |-> "copy"]]
                 /\ drv' = [drv EXCEPT ![i] = "select"]
                 /\ UNCHANGED <<panicking, open, decs, via>>
    /\ UNCHANGED <<env, cfg, initialised, cancelled, serveWg, bytesIn, bytesOut, statsTasks, crashed>>
    /\ UNCHANGED <<closes, drvCloses, errCh, sent, counted>>
    /\ UNCHANGED <<startVars, adds, incs, dones, closePc>>
    /\ UNCHANGED <<hdrVars, clockVars>>
    /\ UNCHANGED faultVars
    /\ UNCHANGED onceVars
    /\ UNCHANGED failsBefore
    /\ UNCHANGED hookVars
    /\ UNCHANGED mainVars
    /\ UNCHANGED armVars
    /\ UNCHANGED acceptErr
    /\ UNCHANGED statsDone
    /\ UNCHANGED poolVars

\* A receive on errIn / errOut can proceed: a value is buffered or the
\* channel is closed.
Ready(ch) == ch # "open"

\* The select of serve: a receive from errIn, a receive from errOut, or
\* baseCtx.Done(); among the ready cases the runtime picks any.  A receive
\* is followed by the return; the cancel case starts with dTCPConn.Close().
ServeSelect(i) ==
    /\ Running
    /\ drv[i] = "select"
    /\ \/ \E p \in Dirs :
            /\ Ready(errCh[i][p])
            /\ errCh' = [errCh EXCEPT ![i][p] = "closed"]
            /\ Untrack(i, p)
            /\ UNCHANGED <<sock, closes, drvCloses>>
       \/ /\ cancelled
          /\ CloseSock(i, "d")
          /\ drvCloses' = [drvCloses EXCEPT ![i]["d"] = @ + 1]
          /\ drv' = [drv EXCEPT ![i] = "closeS"]
          /\ UNCHANGED <<errCh, open, decs, via>>
    /\ UNCHANGED <<env, cfg, initialised, cancelled, serveWg, bytesIn, bytesOut, statsTasks, crashed>>
    /\ UNCHANGED <<panicking, pump, hdr>>
    /\ UNCHANGED <<startVars, adds, incs, dones, closePc>>
    /\ UNCHANGED flowVars
    /\ UNCHANGED <<hdrVars, clockVars>>
    /\ UNCHANGED faultVars
    /\ UNCHANGED onceVars
    /\ UNCHANGED failsBefore
    /\ UNCHANGED hookVars
    /\ UNCHANGED mainVars
    /\ UNCHANGED armVars
    /\ UNCHANGED acceptErr
    /\ UNCHANGED statsDone
    /\ UNCHANGED poolVars

\* The cancel case, second statement: sTCPConn.Close(); then serve returns.
ServeCloseS(i) ==
    /\ Running
    /\ drv[i] = "closeS"
    /\ CloseSock(i, "s")
    /\ drvCloses' = [drvCloses EXCEPT ![i]["s"] = @ + 1]
    /\ Untrack(i, "cancel")
    /\ UNCHANGED <<env, cfg, initialised, cancelled, serveWg, bytesIn, bytesOut, statsTasks, crashed>>
    /\ UNCHANGED <<panicking, pump, errCh, hdr>>
    /\ UNCHANGED <<startVars, adds, incs, dones, closePc>>
    /\ UNCHANGED flowVars
    /\ UNCHANGED <<hdrVars, clockVars>>
    /\ UNCHANGED faultVars
    /\ UNCHANGED onceVars
    /\ UNCHANGED failsBefore
    /\ UNCHANGED hookVars
    /\ UNCHANGED mainVars
    /\ UNCHANGED armVars
    /\ UNCHANGED acceptErr
    /\ UNCHANGED statsDone
    /\ UNCHANGED poolVars

\* The deferred function, second statement: proxy.serveWg.Done().  A panic
\* that has unwound serve is recovered nowhere and ends the process.
ServeDone(i) ==
    /\ Running
    /\ drv[i] = "release"
    /\ serveWg' = serveWg - 1
    /\ dones' = [dones EXCEPT ![i] = @ + 1]
    /\ drv' = [drv EXCEPT ![i] = "done"]
    /\ crashed' = panicking[i]
    /\ UNCHANGED <<env, cfg, initialised, cancelled, open, bytesIn, bytesOut, statsTasks>>
    /\ UNCHANGED <<panicking, sock, closes, drvCloses, via, pump, errCh, hdr>>
    /\ UNCHANGED <<startVars, adds, incs, decs, closePc>>
    /\ UNCHANGED flowVars
    /\ UNCHANGED <<hdrVars, clockVars>>
    /\ UNCHANGED faultVars
    /\ UNCHANGED onceVars
    /\ UNCHANGED failsBefore
    /\ UNCHANGED hookVars
    /\ UNCHANGED mainVars
    /\ UNCHANGED armVars
    /\ UNCHANGED acceptErr
    /\ UNCHANGED statsDone
    /\ UNCHANGED poolVars

\* ------------------------------------------------------------- copyConn()
\* The destination of a pump: errIn's pump writes to d, errOut's to s.
Dst(p) == IF p = "in" THEN "d" ELSE "s"

\* The duration behind a pump's setTimeout: clientTimeout arms the read
\* deadline of s, serverTimeout the write deadline of s.
Timeout(p) == IF p = "in" THEN cfg.ClientTimeout ELSE cfg.ServerTimeout

\* A setter that calls f whatever d is.
timeoutFuncAlways(d, st, t) == [at |-> t + d, calls |-> st.calls + 1]

\* The function timeoutFunc(d, fn) returns, invoked at time t: st.at is the
\* deadline fn last set (0: none) and st.calls the calls of fn so far.
timeoutFunc(d, st, t) ==
    IF d < 1 THEN st ELSE [at |-> t + d, calls |-> st.calls + 1]

\* Both setters bound to the back-end conn.
TargetDst(p) == [sock |-> "d", kind |-> IF p = "in" THEN "read" ELSE "write"]

\* The fn of each setter: sTCPConn.SetReadDeadline for the pump that reads
\* the client, sTCPConn.SetWriteDeadline for the pump that writes to it.
Target(p) == [sock |-> "s", kind |-> IF p = "in" THEN "read" ELSE "write"]

\* timeoutFunc: the deadline is armed only if d > 0, so only then can a
\* copy end in a timeout.
TimeoutArmed(i, p) == Timeout(p) >= 1 /\ sock[i]["s"] = "open"

\* addBytesIn and addBytesOut taken one for the other.
AddBytesSwapped(p, n) ==
    /\ bytesIn' = IF p = "out" THEN bytesIn + n ELSE bytesIn
    /\ bytesOut' = IF p = "in" THEN bytesOut + n ELSE bytesOut

\* addBytesIn / addBytesOut.
AddBytes(p, n) ==
    /\ bytesIn' = IF p = "in" THEN bytesIn + n ELSE bytesIn
    /\ bytesOut' = IF p = "out" THEN bytesOut + n ELSE bytesOut

\* if isClientToServer { proxy.addBytesIn(n) } else { proxy.addBytesOut(n) },
\* as called by pump p of session i.
Count(i, p, n) ==
    /\ AddBytes(p, n)
    /\ counted' = [counted EXCEPT ![i][p] = @ + n]

\* The source of a pump: errIn's pump reads s, errOut's reads d.
Src(p) == IF p = "in" THEN "s" ELSE "d"

\* The payload bytes pump p of session i has written to its destination,
\* and their number.
Payload(i, p) == SelectSeq(wrote[i][Dst(p)], LAMBDA x : x # PROXYLine)
Moved(i, p) == Len(Payload(i, p))

\* The bytes one copy can move: those the source peer has written and no
\* earlier copy has moved.
Room(i, p) == sent[i][p] - Moved(i, p)

\* dst.ReadFrom(src) moves the next n bytes of the source stream, in order.
Move(i, p, n) ==
    wrote' = [wrote EXCEPT ![i][Dst(p)] = @ \o [j \in 1..n |-> Moved(i, p) + j]]

\* Leaving the loop enters the deferred function, whose first statement is
\* close(errChan); err is the error pushed before it, if any.
Leave(i, p, err) ==
    /\ errCh' = [errCh EXCEPT ![i][p] = IF err THEN "errclosed" ELSE "closed"]
    /\ pump' = [pump EXCEPT ![i][p] = "closedst"]

\* One iteration of the loop: setTimeout(), dst.ReadFrom(src) and the
\* classification of (n, err).  ReadFrom wraps every error but io.EOF in a
\* *net.OpError and returns nil at the end of the source stream, so the
\* first branch is taken exactly when the source peer has finished and all
\* it wrote has been moved.  Another error comes from a Close() of one of
\* the two conns or from the network.
PumpCopy(i, p) ==
    /\ Running
    /\ pump[i][p] = "copy"
    /\ \/ /\ sock[i][Src(p)] = "open"
          /\ Room(i, p) = 0 \/ sock[i][Dst(p)] = "open"
          \* err is nil, io.EOF or net.ErrClosed: count and break
          /\ Move(i, p, Room(i, p))
          /\ Count(i, p, Room(i, p))
          /\ Leave(i, p, FALSE)
          /\ UNCHANGED <<ioErrs, timedOut>>
       \/ /\ TimeoutArmed(i, p)
          \* a timeout with n < 1: break
          /\ Leave(i, p, FALSE)
          /\ timedOut' = [timedOut EXCEPT ![i][p] = TRUE]
          /\ UNCHANGED <<bytesIn, bytesOut, wrote, counted, ioErrs>>
       \/ \E n \in 1..Room(i, p) :
            \* a timeout with progress: count and continue
            /\ TimeoutArmed(i, p)
            /\ Move(i, p, n)
            /\ Count(i, p, n)
            /\ UNCHANGED <<pump, errCh, ioErrs, timedOut>>
       \/ \E n \in 0..Room(i, p) :
            \* any other error: errChan <- err and break
            /\ \/ /\ \E k \in Socks : sock[i][k] = "closed"
                  /\ UNCHANGED ioErrs
               \/ /\ \A k \in Socks : sock[i][k] = "open"
                  /\ FaultsLeft
                  /\ ioErrs' = ioErrs + 1
            /\ Move(i, p, n)
            /\ Leave(i, p, TRUE)
            /\ UNCHANGED <<bytesIn, bytesOut, counted, timedOut>>
    /\ UNCHANGED <<env, cfg, initialised, cancelled, serveWg, open, statsTasks, crashed>>
    /\ UNCHANGED <<drv, panicking, sock, closes, drvCloses, via, hdr, sent>>
    /\ UNCHANGED <<startVars, histVars, closePc, tempErrs, tempsBefore>>
    /\ UNCHANGED <<hdrVars, now, deadline, got, lastByte, longestIdle>>
    /\ UNCHANGED onceVars
    /\ UNCHANGED failsBefore
    /\ UNCHANGED hookVars
    /\ UNCHANGED mainVars
    /\ UNCHANGED armVars
    /\ UNCHANGED acceptErr
    /\ UNCHANGED statsDone
    /\ UNCHANGED poolVars

\* The peer at the source end of pump p writes one byte to its socket.
PeerSend(i, p) ==
    /\ Running
    /\ pump[i][p] = "copy"
    /\ sock[i][Src(p)] = "open"
    /\ SentTotal(p) < env.bytes
    /\ sent' = [sent EXCEPT ![i][p] = @ + 1]
    /\ UNCHANGED <<wrote, counted>>
    /\ UNCHANGED <<instVars, startVars, sessVars, histVars, closePc>>
    /\ UNCHANGED <<hdrVars, clockVars>>
    /\ UNCHANGED faultVars
    /\ UNCHANGED onceVars
    /\ UNCHANGED failsBefore
    /\ UNCHANGED hookVars
    /\ UNCHANGED mainVars
    /\ UNCHANGED armVars
    /\ UNCHANGED acceptErr
    /\ UNCHANGED statsDone
    /\ UNCHANGED poolVars

\* A deferred function that closes src instead of dst.
PumpCloseSrc(i, p) ==
    /\ Running
    /\ pump[i][p] = "closedst"
    /\ CloseSock(i, Src(p))
    /\ pump' = [pump EXCEPT ![i][p] = "done"]
    /\ UNCHANGED <<drv, panicking, drvCloses, via, errCh, hdr>>
    /\ UNCHANGED <<instVars, startVars, histVars, closePc>>
    /\ UNCHANGED flowVars
    /\ UNCHANGED <<hdrVars, clockVars>>
    /\ UNCHANGED faultVars
    /\ UNCHANGED onceVars
    /\ UNCHANGED failsBefore
    /\ UNCHANGED hookVars
    /\ UNCHANGED mainVars
    /\ UNCHANGED armVars
    /\ UNCHANGED acceptErr
    /\ UNCHANGED statsDone
    /\ UNCHANGED poolVars

\* A deferred function that closes the source conn as well.
PumpCloseBoth(i, p) ==
    /\ Running
    /\ pump[i][p] = "closedst"
    /\ sock' = [sock EXCEPT ![i] = [k \in Socks |-> "closed"]]
    /\ closes' = [closes EXCEPT ![i] = [k \in Socks |-> @[k] + 1]]
    /\ pump' = [pump EXCEPT ![i][p] = "done"]
    /\ UNCHANGED <<drv, panicking, drvCloses, via, errCh, hdr>>
    /\ UNCHANGED <<instVars, startVars, histVars, closePc>>
    /\ UNCHANGED flowVars
    /\ UNCHANGED <<hdrVars, clockVars>>
    /\ UNCHANGED faultVars
    /\ UNCHANGED onceVars
    /\ UNCHANGED failsBefore
    /\ UNCHANGED hookVars
    /\ UNCHANGED mainVars
    /\ UNCHANGED armVars
    /\ UNCHANGED acceptErr
    /\ UNCHANGED statsDone
    /\ UNCHANGED poolVars

\* The deferred function, second statement: dst.Close().
PumpCloseDst(i, p) ==
    /\ Running
    /\ pump[i][p] = "closedst"
    /\ CloseSock(i, Dst(p))
    /\ pump' = [pump EXCEPT ![i][p] = "done"]
    /\ UNCHANGED <<drv, panicking, drvCloses, via, errCh, hdr>>
    /\ UNCHANGED <<instVars, startVars, histVars, closePc>>
    /\ UNCHANGED flowVars
    /\ UNCHANGED <<hdrVars, clockVars>>
    /\ UNCHANGED faultVars
    /\ UNCHANGED onceVars
    /\ UNCHANGED failsBefore
    /\ UNCHANGED hookVars
    /\ UNCHANGED mainVars
    /\ UNCHANGED armVars
    /\ UNCHANGED acceptErr
    /\ UNCHANGED statsDone
    /\ UNCHANGED poolVars

\* ---------------------------------------------------------------- Close()
\* The Proxy call s has returned an error that main() takes for fatal:
\* err != nil && !errors.Is(err, tcpee.ErrProxyClosed).
Fatal(s) ==
    startPc[s] = "returned" /\ startRet[s] \notin {"nil", "ErrProxyClosed"}

\* Who calls Close.  A user of the package calls it when they like.  In
\* main() the instance is closed by closeAll(running) only: Close call 1 is
\* the one made for the signal, Close call 2 the one made for a Proxy call
\* that failed.
Called(c) ==
    \/ mainPc = "off"
    \/ c = 1 /\ mainPc = "sleep"
    \/ c = 2 /\ \E s \in Starts : Fatal(s)

\* A cancel that flips the token instead of tripping it.
CloseCancelFlip(c) ==
    /\ Running
    /\ closePc[c] = "idle"
    /\ Called(c)
    /\ c <= env.closers
    /\ initialised
    /\ cancelled' = ~cancelled
    /\ closePc' = [closePc EXCEPT ![c] = "wait"]
    /\ UNCHANGED <<env, cfg, initialised, serveWg, open, bytesIn, bytesOut, statsTasks, crashed>>
    /\ UNCHANGED <<startVars, sessVars, histVars>>
    /\ UNCHANGED flowVars
    /\ UNCHANGED <<hdrVars, clockVars>>
    /\ UNCHANGED faultVars
    /\ UNCHANGED onceVars
    /\ UNCHANGED failsBefore
    /\ UNCHANGED hookVars
    /\ UNCHANGED mainVars
    /\ UNCHANGED armVars
    /\ UNCHANGED acceptErr
    /\ UNCHANGED statsDone
    /\ UNCHANGED poolVars

\* proxy.cancel(): trips baseCtx; on a tripped context it does nothing.
\* Before init() the field is nil and the call panics.
CloseCancel(c) ==
    /\ Running
    /\ closePc[c] = "idle"
    /\ Called(c)
    /\ c <= env.closers
    /\ \/ /\ initialised
          /\ cancelled' = TRUE
          /\ closePc' = [closePc EXCEPT ![c] = "wait"]
          /\ UNCHANGED crashed
       \/ /\ ~initialised
          /\ crashed' = TRUE
          /\ closePc' = [closePc EXCEPT ![c] = "panic"]
          /\ UNCHANGED cancelled
    /\ UNCHANGED <<env, cfg, initialised, serveWg, open, bytesIn, bytesOut, statsTasks>>
    /\ UNCHANGED <<startVars, sessVars, histVars>>
    /\ UNCHANGED flowVars
    /\ UNCHANGED <<hdrVars, clockVars>>
    /\ UNCHANGED faultVars
    /\ UNCHANGED onceVars
    /\ UNCHANGED failsBefore
    /\ UNCHANGED hookVars
    /\ UNCHANGED mainVars
    /\ UNCHANGED armVars
    /\ UNCHANGED acceptErr
    /\ UNCHANGED statsDone
    /\ UNCHANGED poolVars

\* A Wait that does not wait.
WaitNoBarrier == TRUE

\* serveWg.Wait() returns once the counter is zero.
WaitReturns == serveWg = 0

\* proxy.serveWg.Wait() and the return of Close.
CloseWait(c) ==
    /\ Running
    /\ closePc[c] = "wait"
    /\ WaitReturns
    /\ closePc' = [closePc EXCEPT ![c] = "returned"]
    /\ UNCHANGED <<instVars, startVars, sessVars, histVars>>
    /\ UNCHANGED flowVars
    /\ UNCHANGED <<hdrVars, clockVars>>
    /\ UNCHANGED faultVars
    /\ UNCHANGED onceVars
    /\ UNCHANGED failsBefore
    /\ UNCHANGED hookVars
    /\ UNCHANGED mainVars
    /\ UNCHANGED armVars
    /\ UNCHANGED acceptErr
    /\ UNCHANGED statsDone
    /\ UNCHANGED poolVars

\* ------------------------------------------------------- startStatsTimer()
\* A ticker goroutine that has no case for baseCtx.Done().
StatsKeepTicking ==
    /\ Running
    /\ cancelled
    /\ statsDone < statsTasks
    /\ UNCHANGED vars

\* A ticker goroutine in its select takes the case <-proxy.baseCtx.Done(),
\* stops the timer and returns.  The other case, the timer's, logs the
\* counters, resets the timer and selects again: it changes nothing here.
StatsExit ==
    /\ Running
    /\ cancelled
    /\ statsDone < statsTasks
    /\ statsDone' = statsDone + 1
    /\ UNCHANGED <<instVars, startVars, sessVars, flowVars, faultVars, histVars, closePc>>
    /\ UNCHANGED <<hdrVars, clockVars, onceVars, failsBefore, hookVars, mainVars, armVars>>
    /\ UNCHANGED acceptErr
    /\ UNCHANGED poolVars

\* ------------------------------------------------------------ the system
\* The steps of the Proxy calls, the sessions, the peers and the Close
\* calls; those of the ticker goroutines, which touch nothing else, are
\* added in TickerNext.
Next ==
    \/ \E s \in Starts : StartInit(s)
    \/ \E s \in Starts : StartDial(s)
    \/ \E s \in Starts : StartListen(s)
    \/ \E s \in Starts : StartCheck(s)
    \/ \E s \in Starts : StartAccept(s)
    \/ \E s \in Starts : StartBackoff(s)
    \/ \E s \in Starts : StartAdd(s)
    \/ \E s \in Starts : StartSpawn(s)
    \/ \E i \in Sessions : ServeDial(i)
    \/ \E i \in Sessions : ServeSelect(i)
    \/ \E i \in Sessions : ServeCloseS(i)
    \/ \E i \in Sessions : ServeDone(i)
    \/ \E i \in Sessions, p \in Dirs : PumpCopy(i, p)
    \/ \E i \in Sessions, p \in Dirs : PumpCloseDst(i, p)
    \/ \E i \in Sessions, p \in Dirs : PeerSend(i, p)
    \/ \E c \in Closers : CloseCancel(c)
    \/ \E c \in Closers : CloseWait(c)

Spec == Init /\ [][Next]_vars

\* The header of one connection, for every choice of endpoints.
HeaderInit ==
    /\ env = [starts |-> 1, conns |-> 1, closers |-> 0, bytes |-> 0, faults |-> 0]
    /\ cfg \in {c \in Configs : c.ProxyProto}
    /\ Idle
    /\ addrs \in Addrs
    /\ line = <<>>
    /\ Unpooled
    /\ Epoch
    /\ Unhooked
    /\ Library

HeaderNext == ServeHeader

HeaderSpec == HeaderInit /\ [][HeaderNext]_vars

\* The header blocks of the serve routines of one instance with ProxyProto
\* set, for several choices of endpoints.
PoolInit ==
    /\ env = [starts |-> 1, conns |-> MaxSessions, closers |-> 0, bytes |-> 0, faults |-> 0]
    /\ cfg \in {c \in Configs : c.ProxyProto}
    /\ Idle
    /\ addrs \in {a \in Addrs : a.client.Port = 7 /\ a.front.Port = 10}
    /\ line = <<>>
    /\ Unpooled
    /\ Epoch
    /\ Unhooked
    /\ Library

PoolNext ==
    \/ \E i \in Sessions : PoolGet(i)
    \/ \E i \in Sessions : PoolAppend(i)
    \/ \E i \in Sessions : PoolPut(i)

PoolSpec == PoolInit /\ [][PoolNext]_vars

\* A Close() of a conn wakes the I/O blocked on that conn, and only that: a
\* pump waiting to read is woken by the close of its source, a pump with a
\* byte to write by the close of its destination.  A pump that holds a byte
\* while only its source is closed may be blocked in the write, on a peer
\* that does not read, and nothing wakes it.
Woken(i, p) ==
    \/ sock[i][Src(p)] = "closed" /\ Room(i, p) = 0
    \/ sock[i][Dst(p)] = "closed" /\ Room(i, p) > 0
    \/ \A k \in Socks : sock[i][k] = "closed"

\* What the Go scheduler guarantees: a goroutine that can run does run.  The
\* steps that wait for the surroundings carry no such guarantee: Accept
\* returns only when a client connects or the listener fails, and nobody is
\* obliged to call Close.  A copy returns when a Close() wakes it or when
\* the deadline its pump armed expires.
Fairness ==
    /\ \A s \in Starts :
        /\ WF_vars(StartInit(s))
        /\ WF_vars(StartDial(s))
        /\ WF_vars(StartListen(s))
        /\ WF_vars(StartCheck(s))
        /\ WF_vars(StartBackoff(s))
        /\ WF_vars(StartAdd(s))
        /\ WF_vars(StartSpawn(s))
    /\ \A i \in Sessions :
        /\ WF_vars(ServeDial(i))
        /\ WF_vars(ServeSelect(i))
        /\ WF_vars(ServeCloseS(i))
        /\ WF_vars(ServeDone(i))
        /\ \A p \in Dirs : WF_vars(PumpCloseDst(i, p))
        /\ \A p \in Dirs : WF_vars(PumpCopy(i, p) /\ (Woken(i, p) \/ TimeoutArmed(i, p)))
    /\ \A c \in Closers : WF_vars(CloseWait(c))

\* The runs of one Proxy call, one client connection, one Close() call, one
\* payload byte and one error of the network.
FairInit ==
    /\ env = [starts |-> 1, conns |-> 1, closers |-> 1, bytes |-> 1, faults |-> 1]
    /\ cfg \in Configs
    /\ Idle
    /\ addrs = Loopback
    /\ line = <<>>
    /\ Unpooled
    /\ Epoch
    /\ Unhooked
    /\ Library

FairSpec == FairInit /\ [][Next]_vars /\ Fairness

\* Two Proxy calls and two Close calls on an instance to which no client
\* connects.
TickerInit ==
    /\ env = [starts |-> 2, conns |-> 0, closers |-> 2, bytes |-> 0, faults |-> 1]
    /\ cfg \in Configs
    /\ Idle
    /\ addrs = Loopback
    /\ line = <<>>
    /\ Unpooled
    /\ Epoch
    /\ Unhooked
    /\ Library

\* The steps of the Proxy calls, of the Close calls and of the ticker
\* goroutines.
TickerNext ==
    \/ \E s \in Starts : StartInit(s)
    \/ \E s \in Starts : StartDial(s)
    \/ \E s \in Starts : StartListen(s)
    \/ \E s \in Starts : StartCheck(s)
    \/ \E s \in Starts : StartAccept(s)
    \/ \E s \in Starts : StartBackoff(s)
    \/ \E c \in Closers : CloseCancel(c)
    \/ \E c \in Closers : CloseWait(c)
    \/ StatsExit

\* A ticker goroutine that can take a step is scheduled in the end;
\* nothing else is asked of the scheduler, of the network or of the callers.
TickerSpec == TickerInit /\ [][TickerNext]_vars /\ WF_vars(StatsExit)

\* ------------------------------------------------------------ timed runs
\* One session with its two pumps against a clock.  A step of the proxy
\* takes no time: the clock advances only when the proxy has nothing to do,
\* so a deadline is noticed at the tick it expires.  The peers write and
\* finish when they please.

\* The timeouts tried: negative, unset, or longer than the slack.
Spans == {-1, 0} \cup (Epsilon + 1)..(Epsilon + 2)

\* The state in which serve has started the two copyConn goroutines of the
\* first connection, each having armed its deadline at time 0.
Proxying ==
    /\ initialised = TRUE
    /\ cancelled = FALSE
    /\ serveWg = 1
    /\ open = 1
    /\ bytesIn = 0
    /\ bytesOut = 0
    /\ statsTasks = 1
    /\ crashed = FALSE
    /\ startPc = [s \in Starts |-> IF s = 1 THEN "accept" ELSE "idle"]
    /\ startRet = [s \in Starts |-> "none"]
    /\ retCancelled = [s \in Starts |-> FALSE]
    /\ ln = [s \in Starts |-> IF s = 1 THEN "open" ELSE "none"]
    /\ probe = [s \in Starts |-> IF s = 1 THEN "closed" ELSE "none"]
    /\ inits = 1
    /\ failsBefore = [i \in Sessions |-> 0]
    /\ acceptErr = [s \in Starts |-> "none"]
    /\ statsDone = 0
    /\ pending = [s \in Starts |-> 0]
    /\ accepted = 1
    /\ drv = [i \in Sessions |-> IF i = 1 THEN "select" ELSE "none"]
    /\ panicking = [i \in Sessions |-> FALSE]
    /\ sock = [i \in Sessions |-> [k \in Socks |-> IF i = 1 THEN "open" ELSE "none"]]
    /\ closes = [i \in Sessions |-> [k \in Socks |-> 0]]
    /\ drvCloses = [i \in Sessions |-> [k \in Socks |-> 0]]
    /\ via = [i \in Sessions |-> "none"]
    /\ pump = [i \in Sessions |-> [p \in Dirs |-> IF i = 1 THEN "copy" ELSE "none"]]
    /\ errCh = [i \in Sessions |-> [p \in Dirs |-> "open"]]
    /\ hdr = [i \in Sessions |-> 0]
    /\ sent = [i \in Sessions |-> [p \in Dirs |-> 0]]
    /\ wrote = [i \in Sessions |-> [k \in Socks |-> <<>>]]
    /\ counted = [i \in Sessions |-> [p \in Dirs |-> 0]]
    /\ ioErrs = 0
    /\ tempErrs = [s \in Starts |-> 0]
    /\ tempsBefore = [i \in Sessions |-> 0]
    /\ adds = [i \in Sessions |-> IF i = 1 THEN 1 ELSE 0]
    /\ incs = [i \in Sessions |-> IF i = 1 THEN 1 ELSE 0]
    /\ decs = [i \in Sessions |-> 0]
    /\ dones = [i \in Sessions |-> 0]
    /\ closePc = [c \in Closers |-> "idle"]

TimedInit ==
    /\ env = [starts |-> 1, conns |-> 1, closers |-> 0, bytes |-> 0, faults |-> 0]
    /\ cfg \in [ProxyProto : {FALSE}, ClientTimeout : Spans, ServerTimeout : Spans]
    /\ Proxying
    /\ addrs = Loopback
    /\ line = <<>>
    /\ Unpooled
    /\ now = 0
    /\ deadline = [i \in Sessions |-> [p \in Dirs |->
                      IF i = 1 THEN timeoutFunc(Timeout(p), [at |-> 0, calls |-> 0], 0).at
                      ELSE 0]]
    /\ iters = [i \in Sessions |-> [p \in Dirs |-> IF i = 1 THEN 1 ELSE 0]]
    /\ calls = [i \in Sessions |-> [p \in Dirs |->
                   IF i = 1 THEN timeoutFunc(Timeout(p), [at |-> 0, calls |-> 0], 0).calls
                   ELSE 0]]
    /\ armed = [i \in Sessions |-> [p \in Dirs |->
                   IF i = 1 /\ timeoutFunc(Timeout(p), [at |-> 0, calls |-> 0], 0).calls > 0
                   THEN {Target(p)} ELSE {}]]
    /\ got = [i \in Sessions |-> [p \in Dirs |-> 0]]
    /\ lastByte = [i \in Sessions |-> 0]
    /\ longestIdle = [i \in Sessions |-> 0]
    /\ timedOut = [i \in Sessions |-> [p \in Dirs |-> FALSE]]
    /\ Unhooked
    /\ Library

\* The deadline pump p armed on s has passed.
Expired(i, p) == deadline[i][p] # 0 /\ now >= deadline[i][p]

\* ReadFrom can move a byte: one is waiting at the source and the deadline
\* has not passed.
CanMove(i, p) ==
    /\ pump[i][p] = "copy"
    /\ \A k \in Socks : sock[i][k] = "open"
    /\ Room(i, p) > 0
    /\ ~Expired(i, p)

\* ReadFrom returns a timeout: the read deadline of s stops the wait for
\* the client's next byte, the write deadline of s stops a write to s.
Due(i, p) ==
    /\ pump[i][p] = "copy"
    /\ \A k \in Socks : sock[i][k] = "open"
    /\ Expired(i, p)
    /\ p = "in" \/ Room(i, p) > 0

\* ReadFrom returns another error: one of its conns has been closed.
Broken(i, p) ==
    /\ pump[i][p] = "copy"
    /\ \E k \in Socks : sock[i][k] = "closed"

\* The proxy has a step to take.
Busy ==
    \E i \in Sessions :
        \/ \E p \in Dirs : CanMove(i, p) \/ Due(i, p) \/ Broken(i, p) \/ pump[i][p] = "closedst"
        \/ drv[i] = "select" /\ \E p \in Dirs : Ready(errCh[i][p])
        \/ drv[i] = "release"

Longer(a, b) == IF a > b THEN a ELSE b

\* One tick of the clock.
ClockTick ==
    /\ Running
    /\ now < MaxTime
    /\ ~Busy
    /\ now' = now + 1
    /\ longestIdle' = [i \in Sessions |->
                          IF sock[i]["s"] = "open"
                          THEN Longer(longestIdle[i], now + 1 - lastByte[i])
                          ELSE longestIdle[i]]
    /\ UNCHANGED <<deadline, got, lastByte, timedOut>>
    /\ UNCHANGED <<instVars, startVars, sessVars, flowVars, faultVars, histVars, closePc>>
    /\ UNCHANGED hdrVars
    /\ UNCHANGED onceVars
    /\ UNCHANGED failsBefore
    /\ UNCHANGED hookVars
    /\ UNCHANGED mainVars
    /\ UNCHANGED armVars
    /\ UNCHANGED acceptErr
    /\ UNCHANGED statsDone
    /\ UNCHANGED poolVars

\* The peer at the source end of pump p writes one byte: the client at most
\* one per tick on average, the back-end MaxBytes in all, and neither a
\* second one while the first waits.
TimedSend(i, p) ==
    /\ Running
    /\ pump[i][p] = "copy"
    /\ sock[i][Src(p)] = "open"
    /\ Room(i, p) = 0
    /\ sent[i][p] <= (IF p = "in" THEN now ELSE MaxBytes - 1)
    /\ sent' = [sent EXCEPT ![i][p] = @ + 1]
    /\ lastByte' = IF p = "in" THEN [lastByte EXCEPT ![i] = now] ELSE lastByte
    /\ UNCHANGED <<wrote, counted>>
    /\ UNCHANGED <<now, deadline, got, longestIdle, timedOut>>
    /\ UNCHANGED <<instVars, startVars, sessVars, faultVars, histVars, closePc>>
    /\ UNCHANGED hdrVars
    /\ UNCHANGED onceVars
    /\ UNCHANGED failsBefore
    /\ UNCHANGED hookVars
    /\ UNCHANGED mainVars
    /\ UNCHANGED armVars
    /\ UNCHANGED acceptErr
    /\ UNCHANGED statsDone
    /\ UNCHANGED poolVars

\* dst.ReadFrom(src), under way, moves the byte that waits at the source.
CopyMove(i, p) ==
    /\ Running
    /\ CanMove(i, p)
    /\ Move(i, p, 1)
    /\ got' = [got EXCEPT ![i][p] = @ + 1]
    /\ UNCHANGED <<sent, counted>>
    /\ UNCHANGED <<now, deadline, lastByte, longestIdle, timedOut>>
    /\ UNCHANGED <<instVars, startVars, sessVars, faultVars, histVars, closePc>>
    /\ UNCHANGED hdrVars
    /\ UNCHANGED onceVars
    /\ UNCHANGED failsBefore
    /\ UNCHANGED hookVars
    /\ UNCHANGED mainVars
    /\ UNCHANGED armVars
    /\ UNCHANGED acceptErr
    /\ UNCHANGED statsDone
    /\ UNCHANGED poolVars

\* setTimeout() at the top of an iteration of pump p: its setter runs on
\* the deadline of its fn.
Arm(i, p) ==
    LET st == timeoutFunc(Timeout(p), [at |-> deadline[i][p], calls |-> calls[i][p]], now)
    IN  /\ deadline' = [deadline EXCEPT ![i][p] = st.at]
        /\ calls' = [calls EXCEPT ![i][p] = st.calls]
        /\ armed' = [armed EXCEPT ![i][p] =
                         IF st.calls > calls[i][p] THEN @ \cup {Target(p)} ELSE @]

\* A timeout that counts n and goes on under the deadline that has passed.
CopyTimeoutNoRearm(i, p) ==
    /\ Running
    /\ Due(i, p)
    /\ \/ /\ got[i][p] < 1
          /\ Leave(i, p, FALSE)
          /\ timedOut' = [timedOut EXCEPT ![i][p] = TRUE]
          /\ UNCHANGED <<bytesIn, bytesOut, counted, got, deadline>>
          /\ UNCHANGED armVars
       \/ /\ got[i][p] >= 1
          /\ Count(i, p, got[i][p])
          /\ UNCHANGED <<deadline, calls, armed>>
          /\ iters' = [iters EXCEPT ![i][p] = @ + 1]
          /\ got' = [got EXCEPT ![i][p] = 0]
          /\ UNCHANGED <<pump, errCh, timedOut>>
    /\ UNCHANGED <<sent, wrote>>
    /\ UNCHANGED <<now, lastByte, longestIdle>>
    /\ UNCHANGED <<env, cfg, initialised, cancelled, serveWg, open, statsTasks, crashed>>
    /\ UNCHANGED <<drv, panicking, sock, closes, drvCloses, via, hdr>>
    /\ UNCHANGED <<startVars, faultVars, histVars, closePc>>
    /\ UNCHANGED hdrVars
    /\ UNCHANGED onceVars
    /\ UNCHANGED failsBefore
    /\ UNCHANGED hookVars
    /\ UNCHANGED mainVars
    /\ UNCHANGED acceptErr
    /\ UNCHANGED statsDone
    /\ UNCHANGED poolVars

\* A timeout that ends the loop whatever n is.
CopyTimeoutAlways(i, p) ==
    /\ Running
    /\ Due(i, p)
    /\ Leave(i, p, FALSE)
    /\ timedOut' = [timedOut EXCEPT ![i][p] = TRUE]
    /\ UNCHANGED <<bytesIn, bytesOut, counted, got, deadline>>
    /\ UNCHANGED <<sent, wrote>>
    /\ UNCHANGED <<now, lastByte, longestIdle>>
    /\ UNCHANGED <<env, cfg, initialised, cancelled, serveWg, open, statsTasks, crashed>>
    /\ UNCHANGED <<drv, panicking, sock, closes, drvCloses, via, hdr>>
    /\ UNCHANGED <<startVars, faultVars, histVars, closePc>>
    /\ UNCHANGED hdrVars
    /\ UNCHANGED onceVars
    /\ UNCHANGED failsBefore
    /\ UNCHANGED hookVars
    /\ UNCHANGED mainVars
    /\ UNCHANGED armVars
    /\ UNCHANGED acceptErr
    /\ UNCHANGED statsDone
    /\ UNCHANGED poolVars

\* ReadFrom returns (n, timeout): with n < 1 the loop ends; otherwise n is
\* counted and the loop continues with setTimeout() and the next ReadFrom.
CopyTimeout(i, p) ==
    /\ Running
    /\ Due(i, p)
    /\ \/ /\ got[i][p] < 1
          /\ Leave(i, p, FALSE)
          /\ timedOut' = [timedOut EXCEPT ![i][p] = TRUE]
          /\ UNCHANGED <<bytesIn, bytesOut, counted, got, deadline>>
          /\ UNCHANGED armVars
       \/ /\ got[i][p] >= 1
          /\ Count(i, p, got[i][p])
          /\ Arm(i, p)
          /\ iters' = [iters EXCEPT ![i][p] = @ + 1]
          /\ got' = [got EXCEPT ![i][p] = 0]
          /\ UNCHANGED <<pump, errCh, timedOut>>
    /\ UNCHANGED <<sent, wrote>>
    /\ UNCHANGED <<now, lastByte, longestIdle>>
    /\ UNCHANGED <<env, cfg, initialised, cancelled, serveWg, open, statsTasks, crashed>>
    /\ UNCHANGED <<drv, panicking, sock, closes, drvCloses, via, hdr>>
    /\ UNCHANGED <<startVars, faultVars, histVars, closePc>>
    /\ UNCHANGED hdrVars
    /\ UNCHANGED onceVars
    /\ UNCHANGED failsBefore
    /\ UNCHANGED hookVars
    /\ UNCHANGED mainVars
    /\ UNCHANGED acceptErr
    /\ UNCHANGED statsDone
    /\ UNCHANGED poolVars

\* ReadFrom returns (n, nil): the source peer has finished and all it wrote
\* has been moved; n is counted and the loop ends.
CopyEOF(i, p) ==
    /\ Running
    /\ pump[i][p] = "copy"
    /\ \A k \in Socks : sock[i][k] = "open"
    /\ Room(i, p) = 0
    /\ Count(i, p, got[i][p])
    /\ Leave(i, p, FALSE)
    /\ UNCHANGED <<sent, wrote>>
    /\ UNCHANGED clockVars
    /\ UNCHANGED <<env, cfg, initialised, cancelled, serveWg, open, statsTasks, crashed>>
    /\ UNCHANGED <<drv, panicking, sock, closes, drvCloses, via, hdr>>
    /\ UNCHANGED <<startVars, faultVars, histVars, closePc>>
    /\ UNCHANGED hdrVars
    /\ UNCHANGED onceVars
    /\ UNCHANGED failsBefore
    /\ UNCHANGED hookVars
    /\ UNCHANGED mainVars
    /\ UNCHANGED armVars
    /\ UNCHANGED acceptErr
    /\ UNCHANGED statsDone
    /\ UNCHANGED poolVars

\* ReadFrom returns (n, err) with another error: errChan <- err, and the
\* loop ends with n not counted.
CopyError(i, p) ==
    /\ Running
    /\ Broken(i, p)
    /\ Leave(i, p, TRUE)
    /\ UNCHANGED flowVars
    /\ UNCHANGED clockVars
    /\ UNCHANGED <<instVars, startVars, faultVars, histVars, closePc>>
    /\ UNCHANGED <<drv, panicking, sock, closes, drvCloses, via, hdr>>
    /\ UNCHANGED hdrVars
    /\ UNCHANGED onceVars
    /\ UNCHANGED failsBefore
    /\ UNCHANGED hookVars
    /\ UNCHANGED mainVars
    /\ UNCHANGED armVars
    /\ UNCHANGED acceptErr
    /\ UNCHANGED statsDone
    /\ UNCHANGED poolVars

TimedNext ==
    \/ ClockTick
    \/ \E i \in Sessions, p \in Dirs : TimedSend(i, p)
    \/ \E i \in Sessions, p \in Dirs : CopyMove(i, p)
    \/ \E i \in Sessions, p \in Dirs : CopyTimeout(i, p)
    \/ \E i \in Sessions, p \in Dirs : CopyEOF(i, p)
    \/ \E i \in Sessions, p \in Dirs : CopyError(i, p)
    \/ \E i \in Sessions, p \in Dirs : PumpCloseDst(i, p)
    \/ \E i \in Sessions : ServeSelect(i)
    \/ \E i \in Sessions : ServeDone(i)

TimedSpec == TimedInit /\ [][TimedNext]_vars

\* ------------------------------------------------- the transparent variant
\* The variant of the package with the Transparent knob: init() installs
\* SetSocketIPTransparent as the Control function of the dialer and of the
\* listener configuration, and the net package runs it on every socket they
\* create, failing the dial or the listen with the error it returns.

\* The error values: "nil", those of the system calls and of c.Control, and
\* the hook's own errors.New("tcpee: failed to set IP_TRANSPARENT").
NotSet == "tcpee: failed to set IP_TRANSPARENT"
Errnos == {"nil", "EPERM"}

\* What the kernel answers on one socket: to c.Control (an error if the
\* socket is closed), to setsockopt, and to getsockopt with the value it
\* reads back.
Answers ==
    [Control : {"nil", "EBADF"}, Setsockopt : Errnos, Getsockopt : Errnos, val : 0..2]

\* The hook without the test of the value read back.
SetSocketIPTransparentNoCheck(c) ==
    IF c.Control # "nil" THEN c.Control
    ELSE IF c.Setsockopt # "nil" THEN c.Setsockopt
    ELSE c.Getsockopt

\* SetSocketIPTransparent on a raw conn that answers as c does: the error of
\* c.Control if it fails, otherwise fnErr, set by SetsockoptInt(.., 1), by
\* GetsockoptInt, or for a value read back other than 1.
SetSocketIPTransparent(c) ==
    IF c.Control # "nil" THEN c.Control
    ELSE IF c.Setsockopt # "nil" THEN c.Setsockopt
    ELSE IF c.Getsockopt # "nil" THEN c.Getsockopt
    ELSE IF c.val # 1 THEN NotSet
    ELSE "nil"

\* The Control function k of the instance, run on a new socket.
RunControl(k) ==
    IF control[k] = "nil" THEN "nil" ELSE SetSocketIPTransparent(kernel[k])

HookInit ==
    /\ env = [starts |-> 1, conns |-> 0, closers |-> 0, bytes |-> 0, faults |-> 0]
    /\ cfg \in Configs
    /\ Idle
    /\ addrs = Loopback
    /\ line = <<>>
    /\ Unpooled
    /\ Epoch
    /\ Transparent \in BOOLEAN
    /\ kernel \in [{"dialer", "lnCfg"} -> Answers]
    /\ control = [k \in {"dialer", "lnCfg"} |-> "nil"]
    /\ hookPc = "idle"
    /\ hookRet = "none"
    /\ Library

\* What a hook step leaves alone.
HookFrame ==
    /\ UNCHANGED <<Transparent, kernel>>
    /\ UNCHANGED <<instVars, startVars, sessVars, flowVars, faultVars, histVars, closePc>>
    /\ UNCHANGED <<hdrVars, clockVars, onceVars, failsBefore, mainVars, armVars, acceptErr, statsDone, poolVars>>

\* proxy.init(): if proxy.Transparent, both Control fields get the hook.
HookInstall ==
    /\ hookPc = "idle"
    /\ control' = [k \in {"dialer", "lnCfg"} |->
                      IF Transparent THEN "SetSocketIPTransparent" ELSE "nil"]
    /\ hookPc' = "dial"
    /\ UNCHANGED hookRet
    /\ HookFrame

\* The pre-flight dial: dialer.Control runs on the new socket before the
\* connect, and its error fails the dial, which Proxy returns.
HookDial ==
    /\ hookPc = "dial"
    /\ IF RunControl("dialer") # "nil"
       THEN hookPc' = "returned" /\ hookRet' = RunControl("dialer")
       ELSE hookPc' = "listen" /\ UNCHANGED hookRet
    /\ UNCHANGED control
    /\ HookFrame

\* proxy.listen(src): lnCfg.Control runs on the new socket before the bind,
\* and its error fails the listen, which Proxy returns.
HookListen ==
    /\ hookPc = "listen"
    /\ IF RunControl("lnCfg") # "nil"
       THEN hookPc' = "returned" /\ hookRet' = RunControl("lnCfg")
       ELSE hookPc' = "accept" /\ UNCHANGED hookRet
    /\ UNCHANGED control
    /\ HookFrame

HookNext ==
    \/ HookInstall
    \/ HookDial
    \/ HookListen

HookSpec == HookInit /\ [][HookNext]_vars

\* ----------------------------------------------------------------- main()
\* The reference entry point around one instance with one `src -> dst`
\* entry.  The clock counts the seconds since the signal.
sleep == 30

\* main() with its Proxy goroutine started and signal.Notify done, blocked
\* in <-signals; the configuration block sets proxy-proto and a
\* client-timeout.
MainInit ==
    /\ env = [starts |-> 1, conns |-> 1, closers |-> 2, bytes |-> 1, faults |-> 1]
    /\ cfg \in {c \in Configs : c.ProxyProto /\ c.ClientTimeout > 0}
    /\ Idle
    /\ addrs = Loopback
    /\ line = <<>>
    /\ Unpooled
    /\ Epoch
    /\ Unhooked
    /\ mainPc = "signals"
    /\ exitCode = -1

\* What a step of main() leaves alone.
MainFrame ==
    /\ UNCHANGED <<instVars, startVars, sessVars, flowVars, faultVars, histVars, closePc>>
    /\ UNCHANGED <<hdrVars, onceVars, failsBefore, hookVars, armVars, acceptErr, statsDone, poolVars>>
    /\ UNCHANGED <<deadline, got, lastByte, longestIdle, timedOut>>

\* sig := <-signals, the go statement of the closing goroutine, and the
\* start of time.Sleep(sleep).
MainSignal ==
    /\ Running
    /\ mainPc = "signals"
    /\ mainPc' = "sleep"
    /\ UNCHANGED <<exitCode, now>>
    /\ MainFrame

\* Time passes, Granule seconds at a time; the sleeping main() wakes when
\* its time has come.
MainTick ==
    /\ Running
    /\ mainPc = "sleep"
    /\ now < sleep
    /\ now' = IF now + Granule <= sleep THEN now + Granule ELSE sleep
    /\ UNCHANGED <<mainPc, exitCode>>
    /\ MainFrame

\* The closing goroutine: closeAll(running) has returned, os.Exit(0).
SignalExit ==
    /\ Running
    /\ mainPc = "sleep"
    /\ closePc[1] = "returned"
    /\ exitCode' = 0
    /\ UNCHANGED <<mainPc, now>>
    /\ MainFrame

\* The goroutine of Proxy call s after a fatal error: closeAll(running),
\* then logger.Fatal(err).  `running` is appended to after the goroutine was
\* started and read without synchronisation, so closeAll sees the instance
\* or an empty slice.
ProxyFatal(s) ==
    /\ Running
    /\ mainPc # "off"
    /\ Fatal(s)
    /\ closePc[2] \in {"idle", "returned"}
    /\ exitCode' = 1
    /\ UNCHANGED <<mainPc, now>>
    /\ MainFrame

\* time.Sleep(sleep) is over: log.Fatal.
Watchdog ==
    /\ Running
    /\ mainPc = "sleep"
    /\ now >= sleep
    /\ exitCode' = 1
    /\ UNCHANGED <<mainPc, now>>
    /\ MainFrame

MainNext ==
    \/ \E s \in Starts : StartInit(s)
    \/ \E s \in Starts : StartDial(s)
    \/ \E s \in Starts : StartListen(s)
    \/ \E s \in Starts : StartCheck(s)
    \/ \E s \in Starts : StartAccept(s)
    \/ \E s \in Starts : StartBackoff(s)
    \/ \E s \in Starts : StartAdd(s)
    \/ \E s \in Starts : StartSpawn(s)
    \/ \E i \in Sessions : ServeDial(i)
    \/ \E i \in Sessions : ServeSelect(i)
    \/ \E i \in Sessions : ServeCloseS(i)
    \/ \E i \in Sessions : ServeDone(i)
    \/ \E i \in Sessions, p \in Dirs : PumpCopy(i, p)
    \/ \E i \in Sessions, p \in Dirs : PumpCloseDst(i, p)
    \/ \E i \in Sessions, p \in Dirs : PeerSend(i, p)
    \/ \E c \in Closers : CloseCancel(c)
    \/ \E c \in Closers : CloseWait(c)
    \/ MainSignal
    \/ MainTick
    \/ SignalExit
    \/ \E s \in Starts : ProxyFatal(s)
    \/ Watchdog

MainSpec == MainInit /\ [][MainNext]_vars

\* ================================================================ claims
\* The serve routine of session i is running: it has been started by the
\* go statement and has not entered its deferred function.
InFlight(i) == drv[i] \in {"dial", "select", "closeS"}

\* C1: every accepted connection is counted once and uncounted once.  Per
\* session, serveWg.Add(1) and the increment of open happen at most once
\* each, in the accept loop, the Add first; the decrement of open and
\* serveWg.Done() happen at most once each, and both have happened exactly
\* once when serve has ended, whichever way it left: a dial error, a failed
\* header write, a receive from errIn or errOut, the cancel case, a panic.
C1_CountedOnceUncountedOnce ==
    \A i \in Sessions :
        /\ drv[i] \in {"none", "accepted"} =>
              adds[i] = 0 /\ incs[i] = 0 /\ decs[i] = 0 /\ dones[i] = 0
        /\ drv[i] = "added" =>
              adds[i] = 1 /\ incs[i] = 0 /\ decs[i] = 0 /\ dones[i] = 0
        /\ InFlight(i) =>
              adds[i] = 1 /\ incs[i] = 1 /\ decs[i] = 0 /\ dones[i] = 0
        /\ drv[i] = "release" =>
              adds[i] = 1 /\ incs[i] = 1 /\ decs[i] = 1 /\ dones[i] = 0
        /\ drv[i] = "done" =>
              adds[i] = 1 /\ incs[i] = 1 /\ decs[i] = 1 /\ dones[i] = 1
        /\ (via[i] # "none") <=> (drv[i] \in {"release", "done"})

\* Two sessions have ended, one through a failed header write and one
\* through a panic that has run the deferred function.
C1_Witness ==
    \E i, j \in Sessions :
        /\ drv[i] = "done" /\ via[i] = "header"
        /\ drv[j] = "done" /\ via[j] = "panic"

\* C2: open is never negative and equals the number of serve routines that
\* are running, in every state.
C2_OpenCountsRunningServes ==
    /\ open >= 0
    /\ open = Cardinality({i \in Sessions : InFlight(i)})

\* Two serve routines are running, one in its select and one in its dial.
C2_Witness ==
    /\ open = 2
    /\ \E i, j \in Sessions : drv[i] = "select" /\ drv[j] = "dial"

\* A step in which the Close() call c returns.
CloseReturns(c) == closePc[c] = "wait" /\ closePc'[c] = "returned"

\* C3: when a Close() call returns, no serve routine is running and none is
\* inside its deferred function: every serve routine started so far has
\* decremented open and called serveWg.Done().
C3_CloseReturnsAfterServes ==
    [][\A c \in Closers :
         CloseReturns(c) => \A i \in Sessions : drv[i] \in {"none", "accepted", "done"}]_vars

\* A Close() call has waited for a session it cancelled and has returned.
C3_Witness ==
    /\ \E c \in Closers : closePc[c] = "returned"
    /\ \E i \in Sessions : drv[i] = "done" /\ via[i] = "cancel"

\* A session exists once the accept and the dial have succeeded; it is over
\* when both pumps have exited and neither socket is open.
IsSession(i) == sock[i]["d"] # "none"
Over(i) ==
    /\ \A p \in Dirs : pump[i][p] \in {"none", "done"}
    /\ \A k \in Socks : sock[i][k] # "open"

\* C4: when a Close() call returns, every session is over: both pumps have
\* exited and both sockets are closed.
C4_NoSessionOutlivesClose ==
    [][\A c \in Closers :
         CloseReturns(c) => \A i \in Sessions : IsSession(i) => Over(i)]_vars

\* The pump that closes socket k as its destination.
PumpInto(k) == IF k = "d" THEN "in" ELSE "out"

\* C5 as stated: Close() is called at most once on each socket of a session.
C5_ClosedAtMostOnce ==
    \A i \in Sessions, k \in Socks : closes[i][k] <= 1

\* C5 as amended: Close() is called on a socket at most once by the pump
\* whose destination it is, exactly when that pump has exited, and at most
\* once by serve, only in its cancel case with baseCtx done; so at most
\* once while baseCtx is not done and at most twice in all.
C5_ClosedOncePerCloser ==
    \A i \in Sessions, k \in Socks :
        LET byPump == closes[i][k] - drvCloses[i][k] IN
        /\ drvCloses[i][k] \in {0, 1}
        /\ byPump \in {0, 1}
        /\ (byPump = 1) <=> (pump[i][PumpInto(k)] = "done")
        /\ drvCloses[i][k] = 1 => cancelled /\ via[i] \in {"none", "cancel"}
        /\ drvCloses[i][k] = 1 => drv[i] \in {"closeS", "release", "done"}
        /\ ~cancelled => closes[i][k] <= 1

\* Close() has cancelled a session whose two pumps were running: serve has
\* closed both sockets and each pump has closed its destination again.
C5_Witness ==
    \E i \in Sessions :
        /\ via[i] = "cancel"
        /\ \A k \in Socks : closes[i][k] = 2 /\ drvCloses[i][k] = 1

\* C6: a session whose dial succeeded ends with both sockets closed,
\* whichever way serve left (a failed header write, errIn, errOut, the
\* cancel case): once serve has ended and no pump is left to run, neither
\* socket is open.
C6_BothSocketsEndClosed ==
    \A i \in Sessions :
        ( /\ IsSession(i)
          /\ drv[i] = "done"
          /\ via[i] \in {"header", "in", "out", "cancel"}
          /\ \A p \in Dirs : pump[i][p] \in {"none", "done"} )
        => \A k \in Socks : sock[i][k] = "closed"

\* C7: serve has called serveWg.Done() only if both sockets of its session
\* have been closed (a serve that panicked aside).
C7_ReleasedAfterBothClosed ==
    \A i \in Sessions :
        (IsSession(i) /\ dones[i] >= 1 /\ ~panicking[i])
        => \A k \in Socks : sock[i][k] = "closed"

\* C8: a step of a Close() call taken when baseCtx is already done (a second
\* call's cancel, or any call's Wait) changes nothing but that call's own
\* position: the token, the counters, the sockets and every goroutine stay
\* as they were.
C8_SecondCloseChangesNothing ==
    [][\A c \in Closers :
         (cancelled /\ closePc'[c] # closePc[c]) =>
             UNCHANGED <<instVars, startVars, sessVars, histVars>>]_vars

\* Two Close() calls have returned on an instance that served a session.
C8_Witness ==
    /\ \E c, d \in Closers : c # d /\ closePc[c] = "returned" /\ closePc[d] = "returned"
    /\ \E i \in Sessions : drv[i] = "done" /\ via[i] = "cancel"

\* C9: once baseCtx is done while Proxy is in Accept or in its backoff
\* sleep, Proxy eventually returns (unless a panic has ended the process
\* first).  The claim adds that the value returned is ErrProxyClosed.
C9_CloseEndsAccepting ==
    \A s \in Starts :
        (cancelled /\ startPc[s] \in {"accept", "backoff"})
            ~> (crashed \/ startPc[s] = "returned")

\* C10: a Proxy call that returns with baseCtx done returns ErrProxyClosed.
C10_ClosedProxyReturnsSentinel ==
    \A s \in Starts :
        (startPc[s] = "returned" /\ retCancelled[s]) => startRet[s] = "ErrProxyClosed"

\* C11: with ProxyProto set, the header line is written to the back-end
\* socket at most once per session, it is the first thing written there, and
\* it has been written when the front-to-back pump starts, so every payload
\* byte follows it; with ProxyProto unset no header line is ever written.
C11_HeaderOnceAndFirst ==
    \A i \in Sessions :
        LET w == wrote[i]["d"] IN
        /\ hdr[i] <= 1
        /\ hdr[i] = Cardinality({j \in DOMAIN w : w[j] = PROXYLine})
        /\ cfg.ProxyProto =>
              /\ w # <<>> => w[1] = PROXYLine
              /\ pump[i]["in"] # "none" => hdr[i] = 1
        /\ ~cfg.ProxyProto => hdr[i] = 0

\* With ProxyProto set, the back-end socket of a session has received the
\* header line and then the first byte of the client.
C11_Witness ==
    \E i \in Sessions : cfg.ProxyProto /\ wrote[i]["d"] = <<PROXYLine, 1>>

\* C12: the header is PROXY, the protocol, the source IP, the destination
\* IP, the source port and the destination port, separated by single spaces
\* and ended by CRLF; the source IP and port are the client's, and the
\* destination port is the port of the front-end the client connected to.
C12_HeaderNamesFrontPort ==
    line # <<>> =>
        /\ Len(line) = 10
        /\ line[1] = "PROXY "
        /\ line[2] \in {"TCP4 ", "TCP6 "}
        /\ line[3] = IPString(addrs.client.IP)
        /\ line[4] = " " /\ line[6] = " " /\ line[8] = " "
        /\ line[7] = Itoa(addrs.client.Port)
        /\ line[9] = Itoa(addrs.front.Port)
        /\ line[10] = "\r\n"

\* What the claim takes for an IPv4 address.
FourByteOrMapped(ip) ==
    \/ Len(ip) = 4
    \/ /\ Len(ip) = 16
       /\ \A j \in 1..10 : ip[j] = 0
       /\ ip[11] = 255 /\ ip[12] = 255

\* C13: isIPv4 is true of exactly the 4-byte IPs and the 16-byte IPs whose
\* bytes 0..9 are zero and bytes 10 and 11 are 0xff, and the protocol field
\* of the header is TCP4 for those client IPs and TCP6 for every other one.
C13_ProtocolToken ==
    /\ \A ip \in IPs : isIPv4(ip) <=> FourByteOrMapped(ip)
    /\ line # <<>> =>
          line[2] = (IF FourByteOrMapped(addrs.client.IP) THEN "TCP4 " ELSE "TCP6 ")

\* A header built for a client whose IP is the 16-byte IPv4-mapped form.
C13_Witness ==
    /\ line # <<>>
    /\ addrs.client.IP = Sixteen(0, 255, 255)
    /\ line[2] = "TCP4 "

\* The pump p of session i has left its loop.
Exited(i, p) == pump[i][p] \in {"closedst", "done"}

\* C14: when a pump has exited, it has added to its direction's counter
\* exactly the bytes it transferred, whatever result ended each ReadFrom
\* (here: in the runs in which the network raises no error).
C14_CountedEqualsMoved ==
    \A i \in Sessions, p \in Dirs :
        (Exited(i, p) /\ ioErrs = 0) => counted[i][p] = Moved(i, p)

\* The growth of a counter in a step, and what the pumps of direction p
\* added to it in that step.
AddedBy(p) ==
    SumOver([i \in Sessions |-> counted'[i][p] - counted[i][p]], Sessions)

\* C15: no step lowers bytesIn or bytesOut, and in every step bytesIn grows
\* by what the front-to-back pumps count and bytesOut by what the
\* back-to-front pumps count: no pump changes the other direction's counter.
C15_CountersMonotonic ==
    [][/\ bytesIn' >= bytesIn
       /\ bytesOut' >= bytesOut
       /\ \A i \in Sessions, p \in Dirs : counted'[i][p] >= counted[i][p]
       /\ bytesIn' - bytesIn = AddedBy("in")
       /\ bytesOut' - bytesOut = AddedBy("out")]_vars

\* Both counters have grown, each through a pump of its own direction.
C15_Witness ==
    /\ bytesIn >= 1 /\ bytesOut >= 1
    /\ \E i \in Sessions : counted[i]["in"] >= 1
    /\ \E i \in Sessions : counted[i]["out"] >= 1

\* The session is over: the client-to-back-end pump has left its loop,
\* both sockets are closed and the session is no longer counted in open.
Terminated(i) ==
    /\ pump[i]["in"] \in {"closedst", "done"}
    /\ \A k \in Socks : sock[i][k] = "closed"
    /\ decs[i] = incs[i]

\* C16: with ClientTimeout d > 0, the session of a client that has written
\* no byte for d is over within d + epsilon of the client's last byte: once
\* the clock is past lastByte + d + Epsilon the pump has exited, both
\* sockets are closed and open is back to its value before the session.
C16_IdleClientEndsInTime ==
    \A i \in Sessions :
        (/\ IsSession(i)
         /\ cfg.ClientTimeout > 0
         /\ now > lastByte[i] + cfg.ClientTimeout + Epsilon)
        => Terminated(i) /\ open = 0

\* C17 as stated: a session whose client writes at an interval shorter than
\* ClientTimeout is never ended by a timeout, of either pump.
C17_SteadyClientNeverTimedOut ==
    \A i \in Sessions :
        (cfg.ClientTimeout > 0 /\ longestIdle[i] < cfg.ClientTimeout)
        => \A p \in Dirs : ~timedOut[i][p]

\* C17, amended: a session whose client writes at an interval shorter than
\* ClientTimeout is never ended by the client timeout: the client-to-back-end
\* pump does not leave its loop on a timeout, however many deadlines expire.
C17_SteadyClientKeepsItsPump ==
    \A i \in Sessions :
        (cfg.ClientTimeout > 0 /\ longestIdle[i] < cfg.ClientTimeout)
        => ~timedOut[i]["in"]

\* A steady client whose pump has passed two expiries of its deadline and
\* is still copying.
C17_Witness ==
    \E i \in Sessions :
        /\ cfg.ClientTimeout > 0
        /\ longestIdle[i] < cfg.ClientTimeout
        /\ now >= 2 * cfg.ClientTimeout
        /\ counted[i]["in"] >= 2
        /\ pump[i]["in"] = "copy"

\* Session i has run to its end with nothing in its way: no timeout is
\* configured, the network raised no error, Close() was not called, and both
\* pumps have returned.
CleanEnd(i) ==
    /\ cfg.ClientTimeout = 0 /\ cfg.ServerTimeout = 0
    /\ ioErrs = 0
    /\ ~cancelled
    /\ via[i] \in Dirs
    /\ \A p \in Dirs : pump[i][p] = "done"

\* C18: what a peer writes arrives at the other side byte-exact: each
\* pump's destination receives the source stream's bytes in order, none
\* twice, and by the end of a session that nothing disturbed all of them,
\* those still pending when the opposite pump saw its EOF included.
C18_ByteExactBothWays ==
    \A i \in Sessions : \A p \in Dirs :
        /\ Payload(i, p) = [j \in 1..Moved(i, p) |-> j]
        /\ Moved(i, p) <= sent[i][p]
        /\ CleanEnd(i) => Moved(i, p) = sent[i][p]

\* Every copyConn goroutine that was started has returned (or the process
\* has ended).
PumpsGone ==
    crashed \/ \A i \in Sessions : \A p \in Dirs : pump[i][p] \in {"none", "done"}

\* C19: once baseCtx is done, every pump of every session eventually
\* returns, whether its serve routine is still in the select or has
\* returned already.
C19_CancelEndsEveryPump == cancelled ~> PumpsGone

\* C20: a temporary error of Accept does not end the accept loop and
\* touches no session.  The step that takes the error leads to the sleep and
\* the step after the sleep back to Accept, on the same open listener, with
\* Proxy not returned; neither changes a session, a counter or the token.
\* A connection accepted after such errors is tracked like any other.
C20_TemporaryKeepsAccepting ==
    [][\A s \in Starts :
        /\ tempErrs'[s] # tempErrs[s] =>
            /\ startPc[s] = "accept" /\ startPc'[s] = "backoff"
            /\ startRet'[s] = "none" /\ ln'[s] = "open"
            /\ UNCHANGED <<sessVars, flowVars, histVars, pending, accepted>>
            /\ UNCHANGED <<open, serveWg, cancelled, crashed>>
        /\ (startPc[s] = "backoff" /\ startPc'[s] # "backoff") =>
            /\ startPc'[s] = "accept"
            /\ startRet'[s] = "none" /\ ln'[s] = "open"
            /\ UNCHANGED <<sessVars, flowVars, histVars, pending, accepted>>
            /\ UNCHANGED <<open, serveWg, cancelled, crashed>>
        /\ \A i \in Sessions :
            (tempsBefore'[i] >= 1 /\ InFlight(i)') => (adds'[i] = 1 /\ incs'[i] = 1)]_vars

\* A connection accepted after a temporary error, its serve routine in the
\* select with both pumps started, and Proxy back in Accept after a further
\* temporary error taken while that session runs.
C20_Witness ==
    \E i \in Sessions : \E s \in Starts :
        /\ tempsBefore[i] >= 1
        /\ tempErrs[s] > tempsBefore[i]
        /\ drv[i] = "select"
        /\ \A p \in Dirs : pump[i][p] = "copy"
        /\ startPc[s] = "accept"
        /\ startRet[s] = "none"

\* No Accept of Proxy call s has returned to it.
NeverAccepted(s) == pending[s] = 0 /\ tempErrs[s] = 0 /\ startPc[s] \notin {"add", "spawn"}

\* C21: a failed pre-flight dial is what Proxy returns, with no listener
\* bound and no connection accepted by that call; after a successful one
\* the probe conn is closed before the listener is bound.
C21_PreflightDialGuardsListen ==
    /\ \A s \in Starts :
        /\ startRet[s] \in {"dialErr", "errCanceled"} =>
            /\ probe[s] = "none"
            /\ ln[s] = "none"
            /\ NeverAccepted(s)
        /\ probe[s] = "none" => (startRet[s] \in {"none", "dialErr", "errCanceled"} /\ ln[s] = "none")
        /\ ln[s] = "none" => NeverAccepted(s)
        /\ ln[s] # "none" => probe[s] = "closed"
    /\ (\A s \in Starts : ln[s] = "none") => accepted = 0

\* A Proxy call returned by a failed pre-flight dial, with nothing bound.
C21_Witness ==
    \E s \in Starts :
        /\ startRet[s] = "dialErr"
        /\ startPc[s] = "returned"
        /\ ln[s] = "none"

\* C22: however many Proxy calls are made on the instance, the function
\* behind doOnce runs once and at most one statistics ticker is started.
C22_InitOnceOneTicker ==
    /\ inits <= 1
    /\ initialised <=> inits = 1
    /\ statsTasks <= 1

\* C23: a session is counted in open for its whole life: for a session
\* whose pumps were started, the decrement of open is not made while one of
\* the pumps still runs or one of the sockets is still open.
C23_CountedWhileAlive ==
    \A i \in Sessions :
        (decs[i] >= 1 /\ via[i] \in Dirs \cup {"cancel"}) =>
            /\ \A p \in Dirs : pump[i][p] \in {"none", "done"}
            /\ \A k \in Socks : sock[i][k] # "open"

\* The state of the sessions other than i.
Others(i) ==
    [j \in Sessions \ {i} |->
        <<drv[j], sock[j], closes[j], pump[j], errCh[j], via[j], wrote[j], counted[j]>>]

\* C24: a failed dial in serve stays with its session.  The step that takes
\* it changes nothing of the Proxy calls (none returns, every listener stays
\* as it is), of the token or of any other session, and takes back the
\* session's count in open; the session starts no pump.
C24_DialFailureStaysLocal ==
    [][\A i \in Sessions :
        (via[i] = "none" /\ via'[i] = "dial") =>
            /\ UNCHANGED <<startVars, cancelled, crashed, serveWg, bytesIn, bytesOut>>
            /\ Others(i)' = Others(i)
            /\ incs[i] = 1 /\ decs[i] = 0 /\ decs'[i] = 1
            /\ open' = open - 1
            /\ \A p \in Dirs : pump'[i][p] = "none"]_vars

\* A connection accepted after another session's dial had failed, being
\* proxied, with the Proxy call still in its loop.
C24_Witness ==
    \E i \in Sessions : \E j \in Sessions \ {i} : \E s \in Starts :
        /\ via[i] = "dial"
        /\ drv[i] = "done"
        /\ failsBefore[j] >= 1
        /\ drv[j] = "select"
        /\ \A k \in Socks : sock[j][k] = "open"
        /\ startPc[s] \in {"check", "accept"}
        /\ open = 1

\* The hook has something to object to on a socket that answers as c does.
Refused(c) ==
    \/ c.Control # "nil"
    \/ c.Setsockopt # "nil"
    \/ c.Getsockopt # "nil"
    \/ c.val # 1

\* C25: with Transparent set, the dialer and the listener configuration
\* both carry the hook once init() has run; the hook yields an error
\* exactly when the set fails, the read-back fails or the value read back is
\* not 1; and the Proxy call returns the error of the first socket refused,
\* and reaches Accept only if none was.
C25_TransparentHook ==
    /\ hookPc # "idle" =>
        \A k \in {"dialer", "lnCfg"} :
            control[k] = (IF Transparent THEN "SetSocketIPTransparent" ELSE "nil")
    /\ \A k \in {"dialer", "lnCfg"} :
        (SetSocketIPTransparent(kernel[k]) # "nil") <=> Refused(kernel[k])
    /\ (Transparent /\ hookPc = "accept") =>
        \A k \in {"dialer", "lnCfg"} : ~Refused(kernel[k])
    /\ (Transparent /\ hookPc = "listen") => ~Refused(kernel["dialer"])
    /\ (Transparent /\ hookPc = "returned") =>
        /\ hookRet # "nil"
        /\ \E k \in {"dialer", "lnCfg"} :
            /\ Refused(kernel[k])
            /\ hookRet \in {kernel[k].Control, kernel[k].Setsockopt, kernel[k].Getsockopt, NotSet}
    /\ ~Transparent => hookPc # "returned"

\* A listener on which the option was set without error and read back as 0:
\* the Proxy call has returned the hook's own error.
C25_Witness ==
    /\ Transparent
    /\ hookPc = "returned"
    /\ hookRet = NotSet
    /\ ~Refused(kernel["dialer"])
    /\ kernel["lnCfg"].val = 0

\* The process has ended: it has exited, or a panic has killed it (the Go
\* runtime then exits with code 2).
ProcessEnded == crashed \/ exitCode # -1
EndCode == IF crashed THEN 2 ELSE exitCode

\* C26: after SIGTERM or SIGINT the process exits within 30 seconds, with
\* code 0 once the Close call made for the signal has returned, and with a
\* non-zero code only when the 30-second watchdog fires: a process that has
\* ended after the signal has ended by the 30th second, and either with
\* code 0 and Close returned, or with a non-zero code at the 30th second.
C26_ExitZeroOrWatchdog ==
    (mainPc = "sleep" /\ ProcessEnded) =>
        /\ now <= sleep
        /\ \/ EndCode = 0 /\ closePc[1] = "returned"
           \/ EndCode # 0 /\ now = sleep


\* C27: a copy iteration that ends in a timeout with n > 0 ends neither
\* the pump nor the session: n is added to the direction's counter, nothing
\* is sent on the completion channel, which stays open, the deadline is
\* armed anew, one timeout from now, and the pump is in its loop for the
\* next copy, with the driver where it was.
C27_TimeoutWithProgressGoesOn ==
    [][\A i \in Sessions, p \in Dirs :
         (CopyTimeout(i, p) /\ got[i][p] >= 1) =>
             /\ pump'[i][p] = "copy"
             /\ errCh' = errCh
             /\ errCh[i][p] = "open"
             /\ drv' = drv /\ via' = via /\ sock' = sock
             /\ counted'[i][p] = counted[i][p] + got[i][p]
             /\ (IF p = "in" THEN bytesIn' - bytesIn ELSE bytesOut' - bytesOut) = got[i][p]
             /\ deadline'[i][p] = now + Timeout(p)
             /\ ~timedOut'[i][p]]_vars

\* Such an iteration has happened: the pump has counted bytes at a time
\* later than its first deadline and copies on under a later one.
C27_Witness ==
    \E i \in Sessions, p \in Dirs :
        /\ pump[i][p] = "copy"
        /\ counted[i][p] >= 1
        /\ got[i][p] = 0
        /\ Timeout(p) >= 1
        /\ deadline[i][p] > Timeout(p)
        /\ deadline[i][p] > now


\* C28: a copy iteration that ends in a timeout with no byte moved ends the
\* pump cleanly.  Once a pump of session i has left its loop that way, its
\* completion channel holds no value, and, the network having raised no
\* error, the receive with which the driver leaves its select yields no
\* error to log, from errIn or from errOut.
C28_IdleTimeoutLogsNothing ==
    [][\A i \in Sessions :
         ((\E p \in Dirs : timedOut[i][p]) /\ ioErrs = 0) =>
             /\ \A p \in Dirs : timedOut[i][p] => errCh[i][p] # "errclosed"
             /\ (drv[i] = "select" /\ drv'[i] # "select") =>
                    \A q \in Dirs : via'[i] = q => errCh[i][q] # "errclosed"]_vars


\* C29: a pump sends at most one value on its completion channel and then
\* closes it.  A value goes onto channel p of session i only while the
\* channel is open and empty, so that the send does not block whether the
\* driver still selects or not, and only for an error of the network: not
\* for the error of a closed connection, met when a socket of the session
\* has been closed.  A closed channel is never open again, and a pump that
\* has left its loop has closed its channel.
C29_OneErrorNeverBlocks ==
    [][\A i \in Sessions, p \in Dirs :
         /\ (errCh'[i][p] = "errclosed" /\ errCh[i][p] # "errclosed") =>
                /\ errCh[i][p] = "open"
                /\ pump[i][p] = "copy"
                /\ \A k \in Socks : sock[i][k] = "open"
         /\ errCh[i][p] # "open" => errCh'[i][p] # "open"
         /\ pump'[i][p] \in {"closedst", "done"} => errCh'[i][p] # "open"]_vars


\* Close() calls the pumps of session i have made on its socket k: all
\* the calls but those of the driver's cancel case.
ByPumps(i, k) == closes[i][k] - drvCloses[i][k]

\* C30: whichever way a pump leaves its loop (a clean end, an idle
\* timeout, an error), it closes its completion channel at once, and when
\* it has exited it has called Close() on its own destination socket,
\* once, and never on its source socket: the pumps' Close() calls on a
\* socket are those of the one pump whose destination it is.  The step
\* that ends a pump closes its destination and leaves the count of its
\* source alone.
C30_PumpClosesChannelAndDst ==
    [][\A i \in Sessions, p \in Dirs :
         /\ (pump[i][p] = "copy" /\ pump'[i][p] # "copy") =>
                pump'[i][p] = "closedst" /\ errCh'[i][p] # "open"
         /\ (pump[i][p] # "done" /\ pump'[i][p] = "done") =>
                /\ errCh[i][p] # "open"
                /\ sock'[i][Dst(p)] = "closed"
                /\ closes'[i][Dst(p)] = closes[i][Dst(p)] + 1
                /\ closes'[i][Src(p)] = closes[i][Src(p)]
         /\ ByPumps(i, Dst(p))' = (IF pump'[i][p] = "done" THEN 1 ELSE 0)]_vars

\* A session both of whose pumps have exited, one after an idle timeout
\* and the other with an error it sent, each having closed its own
\* destination.
C30_Witness ==
    \E i \in Sessions, p, q \in Dirs :
        /\ p # q
        /\ pump[i][p] = "done" /\ timedOut[i][p]
        /\ pump[i][q] = "done" /\ errCh[i][q] = "errclosed"
        /\ \A k \in Socks : ByPumps(i, k) = 1 /\ sock[i][k] = "closed"


\* C31: the setter built from d and f never calls f when d <= 0, and when
\* d > 0 each invocation calls f once, with now + d; a pump invokes its
\* setter once at the top of every iteration, before that iteration's
\* copy.  So with d <= 0 no call is ever made and no deadline is set; with
\* d > 0 the calls are as many as the iterations begun, a pump that copies
\* has begun one, and the step that makes a call makes one, begins an
\* iteration with nothing copied yet, and sets the deadline to now + d.
SetOncePerIteration(i, p) ==
    /\ Timeout(p) <= 0 => calls[i][p] = 0 /\ deadline[i][p] = 0
    /\ Timeout(p) > 0 => calls[i][p] = iters[i][p]
    /\ (pump[i][p] = "copy" \/ got[i][p] > 0) => iters[i][p] >= 1

C31_SetterOncePerIteration ==
    [][\A i \in Sessions, p \in Dirs :
         /\ SetOncePerIteration(i, p)
         /\ SetOncePerIteration(i, p)'
         /\ iters'[i][p] # iters[i][p] =>
                iters'[i][p] = iters[i][p] + 1 /\ got'[i][p] = 0
         /\ calls'[i][p] # calls[i][p] =>
                /\ calls'[i][p] = calls[i][p] + 1
                /\ iters'[i][p] = iters[i][p] + 1
                /\ deadline'[i][p] = now + Timeout(p)]_vars

\* A pump with d > 0 in its third iteration, and one with d <= 0 that has
\* moved a byte, at a time when a deadline would have passed.
C31_Witness ==
    \E i \in Sessions, p, q \in Dirs :
        /\ Timeout(p) > 0 /\ calls[i][p] = 3 /\ pump[i][p] = "copy"
        /\ Timeout(q) < 0 /\ calls[i][q] = 0 /\ Moved(i, q) >= 1
        /\ now > Epsilon


\* C32: both setters of a session act on the front-end socket only.  The
\* pump that reads the client sets the read deadline of s, and does so
\* exactly when ClientTimeout > 0; the pump that writes to the client sets
\* the write deadline of s, and does so exactly when ServerTimeout > 0; no
\* deadline of the back-end socket is ever set.
C32_DeadlinesOnFrontSocketOnly ==
    \A i \in Sessions :
        /\ armed[i]["in"] \subseteq {[sock |-> "s", kind |-> "read"]}
        /\ armed[i]["out"] \subseteq {[sock |-> "s", kind |-> "write"]}
        /\ \A p \in Dirs : \A x \in armed[i][p] : x.sock # "d"
        /\ iters[i]["in"] >= 1 => (armed[i]["in"] # {} <=> cfg.ClientTimeout > 0)
        /\ iters[i]["out"] >= 1 => (armed[i]["out"] # {} <=> cfg.ServerTimeout > 0)

\* A session both of whose pumps have set their deadline, the one that
\* reads the client more than once.
C32_Witness ==
    \E i \in Sessions :
        /\ armed[i]["in"] = {[sock |-> "s", kind |-> "read"]}
        /\ armed[i]["out"] = {[sock |-> "s", kind |-> "write"]}
        /\ calls[i]["in"] >= 2
        /\ cfg.ClientTimeout # cfg.ServerTimeout


\* C33: a non-temporary error of Accept ends the loop.  If it is the
\* end-of-stream the Proxy call returns no error; if it is any other error
\* the call returns that error; either way the call has returned, and a
\* call that has returned accepts and dispatches nothing more.
C33_AcceptErrorEndsLoop ==
    [][\A s \in Starts :
         /\ acceptErr'[s] = "eof" => startPc'[s] = "returned" /\ startRet'[s] = "nil"
         /\ acceptErr'[s] = "error" => startPc'[s] = "returned" /\ startRet'[s] = "acceptErr"
         /\ acceptErr[s] # "none" =>
                /\ startPc'[s] = startPc[s] /\ startRet'[s] = startRet[s]
                /\ pending'[s] = pending[s] /\ tempErrs'[s] = tempErrs[s]
                /\ ln'[s] # "open"]_vars

\* A call ended by an end-of-stream after it had gone through a temporary
\* error and dispatched a session, which still runs.
C33_Witness ==
    \E s \in Starts, i \in Sessions :
        /\ acceptErr[s] = "eof" /\ startRet[s] = "nil" /\ ln[s] = "closed"
        /\ tempErrs[s] >= 1
        /\ drv[i] = "select"


\* Every ticker goroutine that was started has returned (or the process
\* has ended).
TickersGone == crashed \/ statsDone = statsTasks

\* C34: once baseCtx is done, every statistics ticker started for the
\* instance eventually returns.
C34_CancelEndsEveryTicker == cancelled ~> TickersGone

\* Two tickers have returned after the cancel.
C34_Witness == cancelled /\ statsTasks >= 2 /\ statsDone = statsTasks /\ ~crashed


\* C35: once a Close call has cancelled baseCtx and waits on serveWg (or has
\* returned from the wait), no step adds to serveWg, increments proxy.open
\* or starts a serve routine.
CloseWaiting == \E c \in Closers : closePc[c] \in {"wait", "returned"}

C35_NoDispatchAfterClose ==
    [][CloseWaiting =>
        /\ adds' = adds
        /\ incs' = incs
        /\ \A i \in Sessions : drv'[i] = "dial" => drv[i] = "dial"]_vars


\* C36: a serve routine that has exited after a failed dial to dst has left
\* the accepted socket closed.
C36_DialFailureClosesFront ==
    \A i \in Sessions :
        (via[i] = "dial" /\ drv[i] = "done") => sock[i]["s"] = "closed"


\* C37: no Close call faults; one made before any Proxy call has run init()
\* returns like any other.
C37_CloseBeforeInitReturns ==
    \A c \in Closers : closePc[c] # "panic"


\* C38: a Proxy call that has returned, for whatever reason, has no open
\* listener: one it had bound is closed.
C38_ListenerClosedOnReturn ==
    \A s \in Starts : startPc[s] = "returned" => ln[s] # "open"

\* A Proxy call has bound a listener, dispatched a connection and returned
\* on the cancelled context; its listener is closed.
C38_Witness ==
    \E s \in Starts :
        /\ startPc[s] = "returned"
        /\ startRet[s] = "ErrProxyClosed"
        /\ accepted >= 1
        /\ ln[s] = "closed"


\* C39: a buffer a serve routine has just taken from proxy.ppool has length
\* zero, and the header it then builds in it is the header of its own
\* connection and nothing more.
C39_PooledBuffersEmpty ==
    \A i \in Sessions :
        /\ bufPc[i] = "got" => Len(buf[i]) = 0
        /\ bufPc[i] = "built" => buf[i] = Header(addrs.client, addrs.back)

\* A serve routine holds the buffer that another one built its header in
\* and put back.
C39_Witness ==
    \E i, j \in Sessions :
        /\ i # j
        /\ bufPc[i] = "put"
        /\ \A k \in Sessions \ {i} : bufPc[k] = (IF k = j THEN "got" ELSE "none")
        /\ ppool = <<>>
        /\ Len(Header(addrs.client, addrs.back)) > 0

====
